---- MODULE Spec2Model ----
(***************************************************************************)
(* Long-term memory subsystem of the character chatbot                     *)
(* (src/character_chatbot_memory.py, class ChatbotMemoryManager).          *)
(*                                                                         *)
(* The three DynamoDB tables and the S3 bucket are the state.  Every       *)
(* method of the manager is one action; the outcome of each remote call    *)
(* (a DynamoDB / S3 call that raises, the text the model returns) is an    *)
(* input of the action.  Python dicts are functions with a string domain,  *)
(* Python lists are sequences.                                             *)
(***************************************************************************)
EXTENDS Integers, Sequences, FiniteSets, TLC

VARIABLES
    table_users,          \* CharacterChatbot-Users: user_id -> item
    table_conversations,  \* CharacterChatbot-Conversations: <<user_id, conversation_id>> -> item
    table_memories,       \* CharacterChatbot-Memories: items in index order
    s3,                   \* chat-logs/{user_id}/{conversation_id}.json -> body
    now,                  \* datetime.now(timezone.utc), a logical clock
    ret,                  \* the last call of the manager: arguments, remote calls, result
    session_state         \* st.session_state of each browser session of the chat application

vars == <<table_users, table_conversations, table_memories, s3, now, ret, session_state>>

\* No browser session is open
NoSession == <<>>

----------------------------------------------------------------------------
(* Bounds of the model *)

MaxTime == 1        \* the clock runs 0..MaxTime
MaxStepArg == 5     \* current_step arguments are drawn from -1..MaxStepArg
MaxLogins == 2      \* total_sessions is counted up to MaxLogins
MaxTurns == 2       \* message lists hold 0..MaxTurns messages
MaxFacts == 2       \* the memories table holds up to MaxFacts items
MaxFaults == 1      \* up to MaxFaults remote calls fail during one call
MaxStored == 3      \* a store drawn at the start holds up to MaxStored facts
MaxLimit == 2       \* limit arguments are drawn from 0..MaxLimit
MaxRefs == 1        \* reference_count is counted up to MaxRefs

----------------------------------------------------------------------------
(* Python dict helpers *)

EmptyDict == [k \in {} |-> 0]

Get(d, k, default) == IF k \in DOMAIN d THEN d[k] ELSE default

\* dict.update / DynamoDB "SET k = v, ..." on an item
Merge(d, updates) ==
    [k \in DOMAIN d \cup DOMAIN updates |-> IF k \in DOMAIN updates THEN updates[k] ELSE d[k]]

\* put_item / the upsert of update_item
Put(tbl, key, item) ==
    [k \in DOMAIN tbl \cup {key} |-> IF k = key THEN item ELSE tbl[k]]

\* The falsy value of each attribute ("" for strings, [] for lists, {} for
\* dicts): `if d.get(k)` is true when the key is present and not falsy.
\* A JSON null reads as an absent key in every `.get` of the manager.
Falsy(k) ==
    CASE k \in {"nickname", "birthday", "gender", "favorite_group", "hobby", "summary",
                 "content", "confidence"} -> ""
      [] k \in {"interests", "preferred_topics", "favorite_groups", "keywords", "memories"} -> <<>>
      [] k \in {"kpop_preferences", "new_user_info"} -> EmptyDict
      [] k \in {"onboarding_complete", "step_complete"} -> FALSE
      [] OTHER -> 0

Truthy(d, k) == k \in DOMAIN d /\ d[k] # Falsy(k)

Call(api, ok) == [api |-> api, ok |-> ok]

----------------------------------------------------------------------------
(* Program constants *)

Users == {"u1", "u2"}
Characters == {"c1", "c2"}
global == "global"      \* the scope shared by every character

\* ONBOARDING_STEPS: step -> the profile field it collects
ONBOARDING_STEPS ==
    [s \in 0..4 |->
        CASE s = 0 -> "nickname"
          [] s = 1 -> "birthday"
          [] s = 2 -> "interests"
          [] s = 3 -> "kpop_preferences"
          [] s = 4 -> "preferred_topics"]

\* PROFILE_COMPLETION_FIELDS: field -> valid values
PROFILE_COMPLETION_FIELDS == [gender |-> {"male", "female"}]

----------------------------------------------------------------------------
(* Text returned by the model and its parsing *)

\* A Bedrock response: the call raises (transport = FALSE) or returns text.
\* The text is a body, possibly inside a code fence:
\*   fence "none"     <body>
\*   fence "wrapped"  ```json\n<body>\n```
\*   fence "unclosed" ```json\n<body>
\*   fence "oneline"  ```<body>```          (no newline after the fence)
\* and the body is no JSON ("garbage"), JSON that is no object ("nonobject",
\* a list or a string) or a JSON object (obj).
Response(transport, fence, body, obj) ==
    [transport |-> transport, fence |-> fence, body |-> body, obj |-> obj]

TransportError == Response(FALSE, "none", "garbage", EmptyDict)
Garbage == Response(TRUE, "none", "garbage", EmptyDict)
OneLineFence(obj) == Response(TRUE, "oneline", "object", obj)
NonObject == Response(TRUE, "none", "nonobject", EmptyDict)
Object(fence, obj) == Response(TRUE, fence, "object", obj)

\* invoke_model, strip the code fence, json.loads: ok = FALSE when any of
\* them raised (the caller's `except Exception` branch)
ParseLLM(resp) ==
    IF ~resp.transport
    THEN [ok |-> FALSE, isdict |-> FALSE, obj |-> EmptyDict]
    ELSE IF resp.fence = "oneline"       \* text.split("\n", 1)[1] -> IndexError
    THEN [ok |-> FALSE, isdict |-> FALSE, obj |-> EmptyDict]
    ELSE IF resp.body = "garbage"        \* json.loads -> JSONDecodeError
    THEN [ok |-> FALSE, isdict |-> FALSE, obj |-> EmptyDict]
    ELSE [ok |-> TRUE, isdict |-> resp.body = "object", obj |-> resp.obj]

\* How a call of the model ended, as the caller's branches see it
Outcome(parsed) ==
    IF ~parsed.ok THEN "failed" ELSE IF ~parsed.isdict THEN "nonobject" ELSE "object"

----------------------------------------------------------------------------
(* The result of a call *)

Ret(op, user) ==
    [op |-> op, user |-> user, character |-> "", session |-> 0, n |-> 0,
     step |-> 0, raised |-> FALSE, calls |-> <<>>, mems |-> <<>>, full |-> <<>>,
     text |-> <<>>, llm |-> "none", extracted |-> 0, merge |-> FALSE]

Apis(calls) == [i \in 1..Len(calls) |-> calls[i].api]

----------------------------------------------------------------------------
(* User profile *)

\* update_user_profile: the item after "SET k = v, ..., updated_at = now";
\* update_item creates the item when the key is new.
update_user_profile(tbl, user_id, updates) ==
    LET item == IF user_id \in DOMAIN tbl THEN tbl[user_id] ELSE [user_id |-> user_id]
    IN Put(tbl, user_id, Merge(item, Merge(updates, [updated_at |-> now])))

\* The item get_or_create_user puts for a new user (email, display_name and
\* the creation / login timestamps, which nothing reads, are left out).
NewUser(user_id) ==
    [user_id |-> user_id, nickname |-> "", birthday |-> "", interests |-> <<>>,
     kpop_preferences |-> EmptyDict, preferred_topics |-> <<>>,
     onboarding_complete |-> FALSE, onboarding_step |-> 0,
     updated_at |-> now, total_sessions |-> 1]

get_or_create_user(user_id, fGet, fWrite) ==
    LET r == Ret("get_or_create_user", user_id) IN
    /\ user_id \in DOMAIN table_users => Get(table_users[user_id], "total_sessions", 0) < MaxLogins
    /\ UNCHANGED <<table_conversations, table_memories, s3, now>>
    /\ IF ~fGet
       THEN /\ ret' = [r EXCEPT !.raised = TRUE, !.calls = <<Call("users.get_item", FALSE)>>]
            /\ UNCHANGED table_users
       ELSE LET api == IF user_id \in DOMAIN table_users THEN "users.update_item" ELSE "users.put_item"
                calls == <<Call("users.get_item", TRUE), Call(api, fWrite)>>
            IN /\ ret' = [r EXCEPT !.raised = ~fWrite, !.calls = calls]
               /\ IF ~fWrite
                  THEN UNCHANGED table_users
                  ELSE IF user_id \in DOMAIN table_users
                  THEN table_users' = [table_users EXCEPT ![user_id] =
                          Merge(@, [total_sessions |-> Get(@, "total_sessions", 0) + 1])]
                  ELSE table_users' = Put(table_users, user_id, NewUser(user_id))

----------------------------------------------------------------------------
(* Onboarding *)

\* What the judgment call may extract for each field
Extracted ==
    [nickname |-> "Mina", birthday |-> "2000-01-01", interests |-> <<"dance">>,
     kpop_preferences |-> [favorite_groups |-> <<"ATEEZ">>],
     preferred_topics |-> <<"music">>]

\* The responses of the onboarding judgment call
OnboardingResponses ==
    {TransportError, Garbage, NonObject, OneLineFence(Extracted),
     Object("none", Extracted),
     Object("unclosed", Merge(Extracted, [step_complete |-> FALSE])),
     Object("none", [step_complete |-> TRUE]),
     Object("wrapped", Merge(Extracted, [step_complete |-> TRUE]))}

\* Faulty variant: the last step does not set the complete flag.
OnboardingUpdates_nocomplete(extracted, current_step) ==
    LET field == ONBOARDING_STEPS[current_step]
        collected == IF Truthy(extracted, field)
                     THEN [k \in {field} |-> extracted[field]] ELSE EmptyDict
    IN Merge(collected, [onboarding_step |-> current_step + 1])

\* lines 634-653: the updates of a completed step
OnboardingUpdates(extracted, current_step) ==
    LET field == ONBOARDING_STEPS[current_step]
        collected == IF Truthy(extracted, field)
                     THEN [k \in {field} |-> extracted[field]] ELSE EmptyDict
        new_step == current_step + 1
        stepped == Merge(collected, [onboarding_step |-> new_step])
    IN IF new_step > 4 THEN Merge(stepped, [onboarding_complete |-> TRUE]) ELSE stepped

process_onboarding_response(user_id, current_step, resp, fUpdate) ==
    LET parsed == ParseLLM(resp)
        r == [Ret("process_onboarding_response", user_id) EXCEPT
                 !.n = current_step, !.llm = Outcome(parsed)]
        invoke == <<Call("bedrock.invoke_model", resp.transport)>>
    IN
    /\ UNCHANGED <<table_conversations, table_memories, s3, now>>
    /\ IF current_step \notin DOMAIN ONBOARDING_STEPS
       THEN /\ ret' = [r EXCEPT !.step = current_step, !.llm = "none"]
            /\ UNCHANGED table_users
       ELSE IF ~parsed.ok
       THEN /\ ret' = [r EXCEPT !.step = current_step, !.calls = invoke]
            /\ UNCHANGED table_users
       ELSE IF ~parsed.isdict           \* extracted.get -> AttributeError
       THEN /\ ret' = [r EXCEPT !.raised = TRUE, !.calls = invoke]
            /\ UNCHANGED table_users
       ELSE IF ~Get(parsed.obj, "step_complete", FALSE)
       THEN /\ ret' = [r EXCEPT !.step = current_step, !.calls = invoke]
            /\ UNCHANGED table_users
       ELSE LET calls == Append(invoke, Call("users.update_item", fUpdate)) IN
            IF ~fUpdate
            THEN /\ ret' = [r EXCEPT !.raised = TRUE, !.calls = calls]
                 /\ UNCHANGED table_users
            ELSE /\ ret' = [r EXCEPT !.step = current_step + 1, !.calls = calls]
                 /\ table_users' = update_user_profile(table_users, user_id,
                                        OnboardingUpdates(parsed.obj, current_step))

----------------------------------------------------------------------------
(* Conversation save pipeline *)

\* The chat loop's message list after n messages: user and assistant turns
\* alternate; an assistant turn carries the selected image and emotion.
Message(i) ==
    IF i % 2 = 1
    THEN [role |-> "user", content |-> i, timestamp |-> 0]
    ELSE [role |-> "assistant", content |-> i, selected_image |-> "img",
          selected_emotion |-> "happy", timestamp |-> 0]

Messages(n) == [i \in 1..n |-> Message(i)]

\* lines 256-264 / 348-356: what the transcript keeps of each message
LogMessages(messages) ==
    [i \in 1..Len(messages) |->
        LET m == messages[i]
            kept == [role |-> Get(m, "role", "user"), content |-> Get(m, "content", ""),
                     timestamp |-> Get(m, "timestamp", "")]
        IN IF "selected_emotion" \in DOMAIN m
           THEN Merge(kept, [selected_emotion |-> m["selected_emotion"]]) ELSE kept]

conversation_id(character, session_start) == <<character, session_start>>

s3_log_path(user_id, character, session_start) ==
    <<"chat-logs", user_id, conversation_id(character, session_start)>>

\* Faulty variant: the full save keeps only the last exchange.
FullLog_last(user_id, character, messages, session_start) ==
    [user_id |-> user_id, character |-> character, session_start |-> session_start,
     session_end |-> now, message_count |-> Len(messages),
     messages |-> LogMessages(SubSeq(messages, Len(messages) - 1, Len(messages)))]

\* lines 250-265: the transcript of the full save
FullLog(user_id, character, messages, session_start) ==
    [user_id |-> user_id, character |-> character, session_start |-> session_start,
     session_end |-> now, message_count |-> Len(messages),
     messages |-> LogMessages(messages)]

\* Faulty variant: the new messages are appended to the stored transcript.
IncrementalLog_append(user_id, character, messages, session_start) ==
    LET key == s3_log_path(user_id, character, session_start)
        old == IF key \in DOMAIN s3 THEN s3[key].messages ELSE <<>>
    IN [user_id |-> user_id, character |-> character, session_start |-> session_start,
        message_count |-> Len(old) + Len(messages),
        messages |-> old \o LogMessages(messages)]

\* lines 343-357: the transcript of the incremental save
IncrementalLog(user_id, character, messages, session_start) ==
    [user_id |-> user_id, character |-> character, session_start |-> session_start,
     message_count |-> Len(messages), messages |-> LogMessages(messages)]

\* lines 410-416: what _extract_all_from_conversation returns when the call
\* or the parsing raised
ExtractionFallback ==
    [summary |-> "", keywords |-> <<>>, user_sentiment |-> "neutral",
     new_user_info |-> EmptyDict, memories |-> <<>>]

\* Faulty variant: no except branch, the failure reaches save_conversation.
_extract_all_from_conversation_raises(resp) == ParseLLM(resp)

\* _extract_all_from_conversation: the parsed JSON, or the fallback
_extract_all_from_conversation(resp) ==
    LET parsed == ParseLLM(resp)
    IN IF parsed.ok THEN parsed ELSE [ok |-> TRUE, isdict |-> TRUE, obj |-> ExtractionFallback]

\* lines 278-291
conv_item(user_id, character, messages, session_start, extraction) ==
    [user_id |-> user_id,
     conversation_id |-> conversation_id(character, session_start),
     character |-> character, session_start |-> session_start, session_end |-> now,
     message_count |-> Len(messages),
     summary |-> Get(extraction, "summary", ""),
     keywords |-> Get(extraction, "keywords", <<>>),
     user_sentiment |-> Get(extraction, "user_sentiment", "neutral"),
     topics_discussed |-> Get(extraction, "keywords", <<>>),
     s3_log_path |-> s3_log_path(user_id, character, session_start),
     new_user_info |-> Get(extraction, "new_user_info", EmptyDict)]

\* A JSON number n.d as the model holds it, in tenths (importance 5 is 50,
\* 4.5 is 45): _sanitize_for_ddb stores a float as a Decimal, so a
\* fractional importance is stored as it came.
Num(whole, tenths) == whole * 10 + tenths

\* int(x) of a number held in tenths: truncation towards zero
int(x) == IF x >= 0 THEN x \div 10 ELSE -((-x) \div 10)

\* lines 299-313: uuid stands for uuid.uuid4().hex[:12]
mem_item(user_id, character, session_start, mem, uuid) ==
    LET memory_char == Get(mem, "character", global)
    IN [user_id |-> user_id, memory_id |-> <<memory_char, uuid>>,
        character |-> memory_char,
        category |-> Get(mem, "category", "fact"),
        content |-> Get(mem, "content", ""),
        importance |-> Get(mem, "importance", Num(3, 0)),
        source_conversation |-> conversation_id(character, session_start),
        created_at |-> now, last_referenced |-> now,
        reference_count |-> 0, active |-> TRUE]

\* Faulty variant: every key of new_user_info is written to the profile.
profile_updates_all(new_info) == new_info

\* lines 320-328
profile_updates(new_info) ==
    LET kpop == IF Truthy(new_info, "favorite_group")
                THEN [kpop_preferences |-> new_info] ELSE EmptyDict
        birthday == IF Truthy(new_info, "birthday")
                    THEN [birthday |-> new_info["birthday"]] ELSE EmptyDict
        nickname == IF Truthy(new_info, "nickname")
                    THEN [nickname |-> new_info["nickname"]] ELSE EmptyDict
    IN Merge(Merge(kpop, birthday), nickname)

\* Faulty variant: a single message is enough for a full save.
TooShort_one(messages) == Len(messages) < 1

\* line 238: `if not messages or len(messages) < 2`
TooShort(messages) == messages = <<>> \/ Len(messages) < 2

\* Faulty variant: the later calls are issued first.
Then_swapped(calls, later) == later \o calls

\* Statement order: the calls issued so far, then the later ones
Then(calls, later) == calls \o later

\* save_conversation.  faults: the remote calls that raise, <<"s3", 0>> the
\* put_object, <<"conv", 0>> the conversations put_item, <<"mem", i>> the
\* put_item of the i-th memory, <<"profile", 0>> the users update_item.
save_conversation(user_id, character, n, session_start, resp, faults) ==
    LET messages == Messages(n)
        okS3 == <<"s3", 0>> \notin faults
        okConv == <<"conv", 0>> \notin faults
        okProfile == <<"profile", 0>> \notin faults
        r == [Ret("save_conversation", user_id) EXCEPT
                 !.character = character, !.session = session_start, !.n = n]
    IN
    /\ UNCHANGED now
    /\ IF TooShort(messages)
       THEN /\ ret' = r
            /\ UNCHANGED <<table_users, table_conversations, table_memories, s3>>
       ELSE
       LET parsed == _extract_all_from_conversation(resp)
           extraction == parsed.obj
           key == s3_log_path(user_id, character, session_start)
           calls2 == Then(<<Call("bedrock.invoke_model", resp.transport)>>,
                          <<Call("s3.put_object", okS3)>>)
           rr == [r EXCEPT !.llm = Outcome(ParseLLM(resp))]
       IN
       /\ s3' = IF okS3
                THEN Put(s3, key, FullLog(user_id, character, messages, session_start))
                ELSE s3
       /\ IF ~parsed.isdict          \* extraction.get -> AttributeError, line 285
          THEN /\ ret' = [rr EXCEPT !.raised = TRUE, !.calls = calls2]
               /\ UNCHANGED <<table_users, table_conversations, table_memories>>
          ELSE
          LET memories == Get(extraction, "memories", <<>>)
              base == Len(table_memories)
              attempts == [i \in 1..Len(memories) |->
                             [item |-> mem_item(user_id, character, session_start,
                                                memories[i], base + i),
                              ok |-> <<"mem", i>> \notin faults]]
              stored == SelectSeq(attempts, LAMBDA a : a.ok)
              memcalls == [i \in 1..Len(memories) |-> Call("memories.put_item", attempts[i].ok)]
              new_info == Get(extraction, "new_user_info", EmptyDict)
              updates == IF new_info # EmptyDict THEN profile_updates(new_info) ELSE EmptyDict
              calls4 == Then(Then(calls2, <<Call("conversations.put_item", okConv)>>), memcalls)
              rrr == [rr EXCEPT !.extracted = Len(memories), !.merge = updates # EmptyDict]
          IN
          /\ table_conversations' =
                IF okConv
                THEN Put(table_conversations, <<user_id, conversation_id(character, session_start)>>,
                         conv_item(user_id, character, messages, session_start, extraction))
                ELSE table_conversations
          /\ table_memories' = table_memories \o [j \in 1..Len(stored) |-> stored[j].item]
          /\ IF updates = EmptyDict
             THEN /\ ret' = [rrr EXCEPT !.calls = calls4]
                  /\ UNCHANGED table_users
             ELSE IF ~okProfile       \* update_item raises out of save_conversation
             THEN /\ ret' = [rrr EXCEPT !.raised = TRUE,
                                         !.calls = Then(calls4, <<Call("users.update_item", FALSE)>>)]
                  /\ UNCHANGED table_users
             ELSE /\ ret' = [rrr EXCEPT !.calls = Then(calls4, <<Call("users.update_item", TRUE)>>)]
                  /\ table_users' = update_user_profile(table_users, user_id, updates)

save_messages_incremental(user_id, character, n, session_start, okS3) ==
    LET messages == Messages(n)
        r == [Ret("save_messages_incremental", user_id) EXCEPT
                 !.character = character, !.session = session_start, !.n = n]
        key == s3_log_path(user_id, character, session_start)
    IN
    /\ UNCHANGED <<table_users, table_conversations, table_memories, now>>
    /\ IF messages = <<>>
       THEN ret' = r /\ UNCHANGED s3
       ELSE /\ ret' = [r EXCEPT !.calls = <<Call("s3.put_object", okS3)>>]
            /\ s3' = IF okS3
                     THEN Put(s3, key, IncrementalLog(user_id, character, messages, session_start))
                     ELSE s3

----------------------------------------------------------------------------
(* Memory retrieval *)

Min(a, b) == IF a < b THEN a ELSE b

\* seq[:limit] for limit >= 0
Take(seq, limit) == SubSeq(seq, 1, Min(limit, Len(seq)))

\* Faulty variant: the query is keyed by the character alone.
QueryMemories_anyuser(user_id, character) ==
    SelectSeq(table_memories, LAMBDA m : m.character = character /\ m.active)

\* lines 489-514: CharacterMemoryIndex query, user_id = :uid AND character =
\* :char, filtered on active
QueryMemories(user_id, character) ==
    SelectSeq(table_memories,
              LAMBDA m : m.user_id = user_id /\ m.character = character /\ m.active)

\* Where list.sort puts x in an already sorted list: after every item whose
\* key is at least x's (the sort is stable, reverse=True keeps equal items in
\* their original order).
InsertDesc(sorted, x) ==
    LET k == Cardinality({i \in 1..Len(sorted) :
                            int(sorted[i].importance) >= int(x.importance)})
    IN SubSeq(sorted, 1, k) \o <<x>> \o SubSeq(sorted, k + 1, Len(sorted))

\* line 518: all_mems.sort(key=lambda x: int(x.get("importance", 0)), reverse=True)
RECURSIVE SortByImportance(_)
SortByImportance(mems) ==
    IF mems = <<>> THEN <<>>
    ELSE InsertDesc(SortByImportance(SubSeq(mems, 1, Len(mems) - 1)), mems[Len(mems)])

\* Faulty variant: the reference metadata of every queried item is updated.
Referenced_all(all_mems, limit) == all_mems

\* line 521: the items whose reference metadata is updated, all_mems[:limit]
Referenced(all_mems, limit) == Take(all_mems, limit)

\* Faulty variant: the update also deactivates the item.
Touch_deactivate(m) ==
    [m EXCEPT !.reference_count = @ + 1, !.last_referenced = now, !.active = FALSE]

\* lines 523-531: SET reference_count = if_not_exists(reference_count, 0) + 1,
\* last_referenced = now
Touch(m) == [m EXCEPT !.reference_count = @ + 1, !.last_referenced = now]

RECURSIVE TouchTimes(_, _)
TouchTimes(m, k) == IF k = 0 THEN m ELSE TouchTimes(Touch(m), k - 1)

\* The table after the update_item calls for `top`, those at the positions in
\* `failed` having raised (the exception is swallowed, line 532)
UpdateReferenced(tbl, top, failed) ==
    [j \in 1..Len(tbl) |->
        TouchTimes(tbl[j], Cardinality({i \in 1..Len(top) :
                        i \notin failed /\ top[i].memory_id = tbl[j].memory_id
                                        /\ top[i].user_id = tbl[j].user_id}))]

\* The body of _get_top_memories: the returned list, the remote calls and the
\* table afterwards.  faults: <<"qglobal", 0>> / <<"qchar", 0>> the query that
\* raises, <<"upd", i>> the update_item of the i-th returned item that raises.
TopMemories(user_id, character, limit, faults) ==
    IF <<"qglobal", 0>> \in faults
    THEN [mems |-> <<>>, calls |-> <<Call("memories.query", FALSE)>>, table |-> table_memories]
    ELSE IF <<"qchar", 0>> \in faults
    THEN [mems |-> <<>>, table |-> table_memories,
          calls |-> <<Call("memories.query", TRUE), Call("memories.query", FALSE)>>]
    ELSE
    LET all_mems == SortByImportance(QueryMemories(user_id, global)
                                        \o QueryMemories(user_id, character))
        top == Referenced(all_mems, limit)
        failed == {i \in 1..Len(top) : <<"upd", i>> \in faults}
    IN [mems |-> Take(all_mems, limit),
        table |-> UpdateReferenced(table_memories, top, failed),
        calls |-> <<Call("memories.query", TRUE), Call("memories.query", TRUE)>>
                    \o [i \in 1..Len(top) |-> Call("memories.update_item", i \notin failed)]]

_get_top_memories(user_id, character, limit, faults) ==
    LET t == TopMemories(user_id, character, limit, faults) IN
    /\ ret' = [Ret("_get_top_memories", user_id) EXCEPT
                  !.character = character, !.n = limit, !.mems = t.mems, !.calls = t.calls]
    /\ table_memories' = t.table
    /\ UNCHANGED <<table_users, table_conversations, s3, now>>

\* The index order of a user's conversation records, newest first
\* (ScanIndexForward=False); records of equal session_start come in any order.
IndexOrders(user_id) ==
    LET keys == {k \in DOMAIN table_conversations : k[1] = user_id}
        n == Cardinality(keys)
    IN {o \in [1..n -> keys] :
            /\ \A i, j \in 1..n : i # j => o[i] # o[j]
            /\ \A i, j \in 1..n : i < j =>
                  table_conversations[o[i]].session_start
                      >= table_conversations[o[j]].session_start}

\* lines 545-557: Limit bounds the items the query reads, the filter on the
\* character is applied to the items read
RecentSummaries(character, limit, order) ==
    SelectSeq([i \in 1..Min(limit, Len(order)) |-> table_conversations[order[i]]],
              LAMBDA item : item.character = character)

_get_recent_summaries(user_id, character, limit, okQuery, order) ==
    /\ ret' = [Ret("_get_recent_summaries", user_id) EXCEPT
                  !.character = character, !.n = limit,
                  !.calls = <<Call("conversations.query", okQuery)>>,
                  !.mems = IF okQuery THEN RecentSummaries(character, limit, order) ELSE <<>>]
    /\ UNCHANGED <<table_users, table_conversations, table_memories, s3, now>>

----------------------------------------------------------------------------
(* Memory context *)

ContextBudget == 4000   \* line 478
MemoryLimit == 15       \* line 450
SummaryLimit == 5       \* line 467

\* len() of the strings of the model
StrLen(str) ==
    CASE str = "" -> 0
      [] str \in {"C", "S"} -> 1
      [] str \in {"Mina", "oppa", "bias", "fact"} -> 4
      [] str \in {"dance", "ATEEZ", "music", "hobby"} -> 5
      [] str \in {"emphasis", "nickname", "birthday"} -> 8
      [] str \in {"2000-01-01", "preference"} -> 10
      [] str = "favorite_group" -> 14
      [] str = "favorite_groups" -> 15
      [] str = "essay" -> ContextBudget     \* a text as long as the whole budget
      [] str = "essay-29" -> ContextBudget - 29
      [] str = "essay-30" -> ContextBudget - 30

RECURSIVE SumLen(_)
SumLen(strs) == IF strs = <<>> THEN 0 ELSE StrLen(Head(strs)) + SumLen(Tail(strs))

\* len(', '.join(strs))
JoinLen(strs) == IF strs = <<>> THEN 0 ELSE SumLen(strs) + 2 * (Len(strs) - 1)

\* A line of text: what it renders (id: the fact of a fact line) and its length
NoId == <<"", 0>>
Line(kind, id, len) == [kind |-> kind, id |-> id, len |-> len]

RECURSIVE TextLen(_)
\* len() of a text given by its lines
TextLen(lines) ==
    IF lines = <<>> THEN 0
    ELSE IF Len(lines) = 1 THEN lines[1].len
    ELSE lines[1].len + 1 + TextLen(Tail(lines))

RECURSIVE Prefix(_, _)
\* text[:k]: the last line kept may be cut short
Prefix(lines, k) ==
    IF lines = <<>> THEN <<>>
    ELSE IF lines[1].len >= k THEN <<[lines[1] EXCEPT !.len = k]>>
    ELSE <<lines[1]>> \o Prefix(Tail(lines), k - lines[1].len - 1)

\* The keys of the preference map in the order the lines are rendered, and
\* the keys whose value is a list
KpopKeys == <<"favorite_group", "favorite_groups", "nickname", "birthday", "hobby">>
IsList(k) == k \in {"favorite_groups"}

\* lines 437-442
KpopLines(kpop) ==
    LET present == SelectSeq(KpopKeys, LAMBDA k : Truthy(kpop, k))
    IN [i \in 1..Len(present) |->
          LET k == present[i]
          IN Line("kpop", NoId,
                  4 + StrLen(k) + 2 + (IF IsList(k) THEN JoinLen(kpop[k]) ELSE StrLen(kpop[k])))]

\* lines 426-447: the lines under "[사용자 프로필]"
ProfileLines(profile) ==
    (IF Truthy(profile, "nickname")
     THEN <<Line("nickname", NoId, 8 + StrLen(profile["nickname"]))>> ELSE <<>>)
    \o (IF Truthy(profile, "gender") THEN <<Line("gender", NoId, 6)>> ELSE <<>>)
    \o (IF Truthy(profile, "birthday")
        THEN <<Line("birthday", NoId, 6 + StrLen(profile["birthday"]))>> ELSE <<>>)
    \o (IF Truthy(profile, "interests")
        THEN <<Line("interests", NoId, 5 + JoinLen(profile["interests"]))>> ELSE <<>>)
    \o KpopLines(Get(profile, "kpop_preferences", EmptyDict))
    \o (IF Truthy(profile, "preferred_topics")
        THEN <<Line("preferred_topics", NoId, 7 + JoinLen(profile["preferred_topics"]))>>
        ELSE <<>>)

\* Faulty variant: only an importance above 5 makes a directive.
IsCritical_above(m) == int(m.importance) > 5

\* line 452: int(m.get("importance", 0)) >= 5
IsCritical(m) == int(m.importance) >= 5

\* lines 452-464: the lines under "[기억하고 있는 정보]"
MemoryLines(memories) ==
    LET critical == SelectSeq(memories, IsCritical)
        normal == SelectSeq(memories, LAMBDA m : ~IsCritical(m))
    IN (IF critical # <<>>
        THEN <<Line("critical_heading", NoId, 28)>>
                \o [i \in 1..Len(critical) |->
                      Line("critical", critical[i].memory_id, 4 + StrLen(critical[i].content))]
                \o <<Line("blank", NoId, 0)>>
        ELSE <<>>)
       \o (IF normal # <<>>
           THEN <<Line("normal_heading", NoId, 7)>>
                   \o [i \in 1..Len(normal) |->
                         Line("normal", normal[i].memory_id,
                              3 + StrLen(normal[i].category) + 2 + StrLen(normal[i].content))]
           ELSE <<>>)

\* line 469: one line for each summary that is not empty
SummaryLines(summaries) ==
    LET kept == SelectSeq(summaries, LAMBDA item : Truthy(item, "summary"))
    IN [i \in 1..Len(kept) |->
          Line("summary", kept[i].conversation_id, 15 + StrLen(kept[i].summary))]

\* Faulty variant: a section is rendered even when it has no line.
Section_bare(heading, len, lines) == <<Line(heading, NoId, len)>> \o lines

\* A section: its heading line, then its lines; no section without lines
Section(heading, len, lines) ==
    IF lines = <<>> THEN <<>> ELSE <<Line(heading, NoId, len)>> \o lines

RECURSIVE JoinParts(_)
\* line 476: "\n\n".join(parts), an empty line between two parts
JoinParts(parts) ==
    IF parts = <<>> THEN <<>>
    ELSE IF Len(parts) = 1 THEN parts[1]
    ELSE parts[1] \o <<Line("separator", NoId, 0)>> \o JoinParts(Tail(parts))

\* lines 425-476: the text before the length policy
Context(profile, memories, summaries) ==
    JoinParts(SelectSeq(<<Section("profile_heading", 9, ProfileLines(profile)),
                          Section("memory_heading", 12, MemoryLines(memories)),
                          Section("summary_heading", 10, SummaryLines(summaries))>>,
                        LAMBDA part : part # <<>>))

MarkerLen == 12         \* line 479, len("\n... (일부 생략)")

\* Faulty variant: no length policy.
Truncate_none(lines) == lines

\* lines 478-479: context[:4000] + "\n... (일부 생략)"
Truncate(lines) ==
    IF TextLen(lines) > ContextBudget
    THEN Prefix(lines, ContextBudget) \o <<Line("marker", NoId, 11)>>
    ELSE lines

\* build_memory_context.  faults: <<"profile", 0>> the users get_item,
\* <<"qsum", 0>> the conversations query, and those of _get_top_memories;
\* order: the index order the conversations query reads.
build_memory_context(user_id, character, faults, order) ==
    LET r == [Ret("build_memory_context", user_id) EXCEPT !.character = character]
        okGet == <<"profile", 0>> \notin faults
        okSum == <<"qsum", 0>> \notin faults
        get == <<Call("users.get_item", okGet)>>
    IN
    /\ UNCHANGED <<table_users, table_conversations, s3, now>>
    /\ IF ~okGet            \* get_user_profile raises, line 425
       THEN /\ ret' = [r EXCEPT !.raised = TRUE, !.calls = get]
            /\ UNCHANGED table_memories
       ELSE
       LET profile == IF user_id \in DOMAIN table_users THEN table_users[user_id] ELSE EmptyDict
           t == TopMemories(user_id, character, MemoryLimit, faults)
           summaries == IF okSum THEN RecentSummaries(character, SummaryLimit, order) ELSE <<>>
           context == Context(profile, t.mems, summaries)
       IN /\ ret' = [r EXCEPT !.mems = t.mems, !.full = context, !.text = Truncate(context),
                              !.calls = get \o t.calls
                                            \o <<Call("conversations.query", okSum)>>]
          /\ table_memories' = t.table

----------------------------------------------------------------------------
(* Prompt additions and profile completion *)

\* get_onboarding_prompt_addition: the step the instruction names, or no text
get_onboarding_prompt_addition(user_id, character, okGet) ==
    LET r == [Ret("get_onboarding_prompt_addition", user_id) EXCEPT
                 !.character = character, !.calls = <<Call("users.get_item", okGet)>>]
    IN
    /\ UNCHANGED <<table_users, table_conversations, table_memories, s3, now>>
    /\ IF ~okGet            \* get_user_profile raises, line 566
       THEN ret' = [r EXCEPT !.raised = TRUE]
       ELSE IF user_id \notin DOMAIN table_users THEN ret' = r
       ELSE LET profile == table_users[user_id]
                step == Get(profile, "onboarding_step", 0)
            IN IF Get(profile, "onboarding_complete", FALSE) \/ step \notin DOMAIN ONBOARDING_STEPS
               THEN ret' = r
               ELSE ret' = [r EXCEPT !.step = step,
                               !.text = <<[kind |-> "onboarding", field |-> ONBOARDING_STEPS[step]]>>]

\* Faulty variant: every completion field counts as missing.
missing_fields_all(profile) == DOMAIN PROFILE_COMPLETION_FIELDS

\* line 688: the completion fields the profile lacks
missing_fields(profile) == {f \in DOMAIN PROFILE_COMPLETION_FIELDS : ~Truthy(profile, f)}

get_profile_completion_prompt(user_id, okGet) ==
    LET r == [Ret("get_profile_completion_prompt", user_id) EXCEPT
                 !.calls = <<Call("users.get_item", okGet)>>]
    IN
    /\ UNCHANGED <<table_users, table_conversations, table_memories, s3, now>>
    /\ IF ~okGet            \* get_user_profile raises, line 664
       THEN ret' = [r EXCEPT !.raised = TRUE]
       ELSE IF user_id \notin DOMAIN table_users \/ missing_fields(table_users[user_id]) = {}
       THEN ret' = r
       ELSE ret' = [r EXCEPT !.text = <<[kind |-> "completion",
                                          fields |-> missing_fields(table_users[user_id])]>>]

\* The responses of the profile completion call
CompletionResponses ==
    {TransportError, Garbage, NonObject,
     Object("none", [gender |-> "female", confidence |-> "high"]),
     Object("wrapped", [gender |-> "male", confidence |-> "low"]),
     Object("none", [gender |-> "male", confidence |-> "high"]),
     Object("none", [gender |-> "other", confidence |-> "high"]),
     Object("unclosed", [confidence |-> "high"])}

process_profile_completion(user_id, resp, okGet, okUpdate) ==
    LET r == Ret("process_profile_completion", user_id)
        get == <<Call("users.get_item", okGet)>>
        parsed == ParseLLM(resp)
        invoke == Append(get, Call("bedrock.invoke_model", resp.transport))
    IN
    /\ UNCHANGED <<table_conversations, table_memories, s3, now>>
    /\ IF ~okGet            \* get_user_profile raises, line 684
       THEN ret' = [r EXCEPT !.raised = TRUE, !.calls = get] /\ UNCHANGED table_users
       ELSE IF user_id \notin DOMAIN table_users \/ missing_fields(table_users[user_id]) = {}
       THEN ret' = [r EXCEPT !.calls = get] /\ UNCHANGED table_users
       ELSE IF ~parsed.ok
       THEN ret' = [r EXCEPT !.calls = invoke, !.llm = "failed"] /\ UNCHANGED table_users
       ELSE IF ~parsed.isdict   \* extracted.get -> AttributeError, line 730
       THEN /\ ret' = [r EXCEPT !.raised = TRUE, !.calls = invoke, !.llm = "nonobject"]
            /\ UNCHANGED table_users
       ELSE LET gender == Get(parsed.obj, "gender", "")
                rr == [r EXCEPT !.llm = "object"]
            IN IF \/ Get(parsed.obj, "confidence", "") # "high"
                  \/ gender \notin {"male", "female"}
                  \/ "gender" \notin missing_fields(table_users[user_id])
               THEN ret' = [rr EXCEPT !.calls = invoke] /\ UNCHANGED table_users
               ELSE IF ~okUpdate
               THEN /\ ret' = [rr EXCEPT !.raised = TRUE,
                                  !.calls = Append(invoke, Call("users.update_item", FALSE))]
                    /\ UNCHANGED table_users
               ELSE /\ ret' = [rr EXCEPT !.calls = Append(invoke, Call("users.update_item", TRUE))]
                    /\ table_users' = update_user_profile(table_users, user_id,
                                                          [gender |-> gender])

----------------------------------------------------------------------------
(* Time *)

Tick ==
    /\ UNCHANGED session_state
    /\ /\ now < MaxTime
       /\ now' = now + 1
       /\ UNCHANGED <<table_users, table_conversations, table_memories, s3, ret>>

----------------------------------------------------------------------------
(* Initial state: empty tables, empty bucket *)

Init ==
    /\ session_state = NoSession
    /\ table_users = EmptyDict
    /\ table_conversations = EmptyDict
    /\ table_memories = <<>>
    /\ s3 = EmptyDict
    /\ now = 0
    /\ ret = Ret("init", "")

----------------------------------------------------------------------------
(* Onboarding of one user: login, then any sequence of calls of the step   *)
(* transition                                                              *)

Login ==
    /\ UNCHANGED session_state
    /\ \E fGet \in BOOLEAN, fWrite \in BOOLEAN : get_or_create_user("u1", fGet, fWrite)

OnboardingTurn ==
    /\ UNCHANGED session_state
    /\ \E current_step \in -1..MaxStepArg, resp \in OnboardingResponses, fUpdate \in BOOLEAN :
           /\ "u1" \in DOMAIN table_users
           /\ process_onboarding_response("u1", current_step, resp, fUpdate)

NextOnboarding == Login \/ OnboardingTurn

SpecOnboarding == Init /\ [][NextOnboarding]_vars

StoredStep(u) == Get(table_users[u], "onboarding_step", 0)
StoredComplete(u) == Get(table_users[u], "onboarding_complete", FALSE)

\* C1: over any sequence of calls of process_onboarding_response for one
\* user, the stored onboarding_step never decreases, and once it is greater
\* than 4 it never changes again and onboarding_complete stays true.
C1_StepNeverDecreases ==
    [][("u1" \in DOMAIN table_users /\ ret'.op = "process_onboarding_response")
        => /\ StoredStep("u1")' >= StoredStep("u1")
           /\ StoredStep("u1") > 4 =>
                 /\ StoredStep("u1")' = StoredStep("u1")
                 /\ StoredComplete("u1")']_vars

----------------------------------------------------------------------------
(* The save pipeline of one logged-in user over two characters *)

\* What the extraction call may return for a conversation with `character`
ScenarioA(character) ==
    [summary |-> "S", keywords |-> <<"k">>, user_sentiment |-> "positive",
     new_user_info |-> [favorite_group |-> "ATEEZ"],
     memories |-> <<[character |-> global, category |-> "emphasis",
                     content |-> "oppa", importance |-> Num(5, 0)],
                    [character |-> character, category |-> "preference",
                     content |-> "bias", importance |-> Num(2, 0)]>>]

ScenarioB ==
    [new_user_info |-> [nickname |-> "Mina", birthday |-> "2000-01-01"],
     memories |-> <<[content |-> "C"]>>]

ScenarioC == [summary |-> "S", new_user_info |-> [hobby |-> "dance"]]

ExtractionResponses(character) ==
    {TransportError, Garbage, NonObject, OneLineFence(ScenarioB),
     Object("none", EmptyDict), Object("none", ScenarioA(character)),
     Object("wrapped", ScenarioB), Object("unclosed", ScenarioC)}

MemoriesOf(resp) == Get(_extract_all_from_conversation(resp).obj, "memories", <<>>)

\* The remote writes save_conversation issues for a response
FaultPoints(resp) ==
    {<<"s3", 0>>, <<"conv", 0>>, <<"profile", 0>>}
        \cup {<<"mem", i>> : i \in 1..Len(MemoriesOf(resp))}

FaultSets(points) == {F \in SUBSET points : Cardinality(F) <= MaxFaults}

\* The state after the first login of u1
InitLoggedIn ==
    /\ session_state = NoSession
    /\ now = 0
    /\ table_users = [u \in {"u1"} |-> NewUser("u1")]
    /\ table_conversations = EmptyDict
    /\ table_memories = <<>>
    /\ s3 = EmptyDict
    /\ ret = Ret("init", "")

SaveConversation ==
    /\ UNCHANGED session_state
    /\ \E n \in 0..MaxTurns, resp \in ExtractionResponses("c1") :
         \E faults \in FaultSets(FaultPoints(resp)) :
           /\ Len(table_memories) + Len(MemoriesOf(resp)) <= MaxFacts
           /\ save_conversation("u1", "c1", n, 1, resp, faults)

SaveIncremental ==
    /\ UNCHANGED session_state
    /\ \E character \in Characters, n \in 0..MaxTurns, okS3 \in BOOLEAN :
           save_messages_incremental("u1", character, n, 1, okS3)

NextSave == SaveConversation \/ SaveIncremental

SpecSave == InitLoggedIn /\ [][NextSave]_vars

Repeat(x, k) == [i \in 1..k |-> x]

IsWrite(call) == call.api # "bedrock.invoke_model"

\* The remote calls of a full save that runs to its end
FullSaveCalls(extracted, merge) ==
    <<"bedrock.invoke_model", "s3.put_object", "conversations.put_item">>
        \o Repeat("memories.put_item", extracted)
        \o (IF merge THEN <<"users.update_item">> ELSE <<>>)

RetKey == s3_log_path(ret.user, ret.character, ret.session)
RetConvKey == <<ret.user, conversation_id(ret.character, ret.session)>>

\* C3: in save_conversation the transcript write, the conversation-record
\* write, each memory-fact write and the profile merge are best-effort: when
\* one of them fails the call is not aborted (it returns normally) and every
\* remaining side effect is still attempted.
C3_EveryWriteBestEffort ==
    (/\ ret.op = "save_conversation"
     /\ ret.llm \in {"failed", "object"}
     /\ \E i \in DOMAIN ret.calls : IsWrite(ret.calls[i]) /\ ~ret.calls[i].ok)
    => /\ ~ret.raised
       /\ Apis(ret.calls) = FullSaveCalls(ret.extracted, ret.merge)

\* C4: when the extraction call fails or returns text that is not JSON, a
\* save_conversation of at least 2 turns returns normally, issues exactly the
\* transcript write and one conversation-record write (no memory write, no
\* profile update); the stored transcript holds the turns and the stored
\* record has an empty summary, no keywords and sentiment neutral; the
\* memories table and the profile are left as they were.
C4_MalformedExtractionDegrades ==
    [][(ret'.op = "save_conversation" /\ ret'.n >= 2 /\ ret'.llm = "failed")
        => /\ ~ret'.raised
           /\ Apis(ret'.calls) = <<"bedrock.invoke_model", "s3.put_object", "conversations.put_item">>
           /\ ret'.calls[2].ok =>
                 /\ RetKey' \in DOMAIN s3'
                 /\ s3'[RetKey'].messages = LogMessages(Messages(ret'.n))
                 /\ s3'[RetKey'].message_count = ret'.n
           /\ ret'.calls[3].ok =>
                 /\ RetConvKey' \in DOMAIN table_conversations'
                 /\ table_conversations'[RetConvKey'].summary = ""
                 /\ table_conversations'[RetConvKey'].keywords = <<>>
                 /\ table_conversations'[RetConvKey'].user_sentiment = "neutral"
                 /\ table_conversations'[RetConvKey'].message_count = ret'.n
           /\ UNCHANGED <<table_memories, table_users>>]_vars

C4_Witness ==
    /\ ret.op = "save_conversation" /\ ret.n >= 2 /\ ret.llm = "failed"
    /\ ret.calls[2].ok /\ ret.calls[3].ok
    /\ table_conversations[RetConvKey].summary = ""
    /\ table_memories # <<>>

\* C5: save_conversation with 0 or 1 turns makes no remote call at all (no
\* generation call, no write) and changes no table and no blob; with 2 or
\* more turns it makes exactly one extraction call, before anything else.
C5_ShortListsWriteNothing ==
    [][ret'.op = "save_conversation"
        => IF ret'.n < 2
           THEN /\ ret'.calls = <<>>
                /\ UNCHANGED <<table_users, table_conversations, table_memories, s3>>
           ELSE /\ Cardinality({i \in DOMAIN ret'.calls :
                                    ret'.calls[i].api = "bedrock.invoke_model"}) = 1
                /\ ret'.calls[1].api = "bedrock.invoke_model"]_vars

C5_Witness ==
    /\ ret.op = "save_conversation" /\ ret.n = 1
    /\ ret.calls = <<>>
    /\ RetKey \in DOMAIN s3

\* C6: save_messages_incremental is idempotent - a second call with the
\* same user, character, session start and turn list after a call that
\* wrote the blob leaves every blob as it was - and every call makes no
\* generation call, changes no table and no blob other than its own key,
\* and its blob holds exactly the turns passed.
C6_IncrementalIdempotent ==
    [][ret'.op = "save_messages_incremental"
        => /\ UNCHANGED <<table_users, table_conversations, table_memories>>
           /\ Apis(ret'.calls) \in {<<>>, <<"s3.put_object">>}
           /\ \A k \in DOMAIN s3 : k # RetKey' => k \in DOMAIN s3' /\ s3'[k] = s3[k]
           /\ DOMAIN s3' \subseteq DOMAIN s3 \cup {RetKey'}
           /\ (ret'.calls # <<>> /\ ret'.calls[1].ok) =>
                 s3'[RetKey'].messages = LogMessages(Messages(ret'.n))
           /\ (/\ ret.op = "save_messages_incremental"
               /\ ret.user = ret'.user /\ ret.character = ret'.character
               /\ ret.session = ret'.session /\ ret.n = ret'.n
               /\ ret.calls # <<>> /\ ret.calls[1].ok) => s3' = s3]_vars

C6_Witness ==
    /\ ret.op = "save_messages_incremental" /\ ret.n = 2
    /\ ret.calls # <<>> /\ ret.calls[1].ok
    /\ "session_end" \notin DOMAIN s3[RetKey]
    /\ \E k \in DOMAIN s3 : k # RetKey

----------------------------------------------------------------------------
(* Retrieval over a store of facts written by earlier saves *)

\* The facts earlier saves may have written: of two users, scoped global, c1
\* or c2, with importances the extraction returned (5, 4.2, 4.8, none);
\* the last one was deactivated by the operator of the table.
PoolFacts ==
    <<[user |-> "u1", mem |-> [character |-> "c1", category |-> "preference",
                               content |-> "bias", importance |-> Num(4, 2)]],
      [user |-> "u1", mem |-> [character |-> global, category |-> "emphasis",
                               content |-> "oppa", importance |-> Num(5, 0)]],
      [user |-> "u1", mem |-> [character |-> "c1", content |-> "C",
                               importance |-> Num(4, 8)]],
      [user |-> "u1", mem |-> [character |-> "c2", content |-> "oppa",
                               importance |-> Num(5, 0)]],
      [user |-> "u2", mem |-> [character |-> "c1", content |-> "bias",
                               importance |-> Num(5, 0)]],
      [user |-> "u1", mem |-> [content |-> "C"]],
      [user |-> "u1", mem |-> [content |-> "bias", importance |-> Num(5, 0)]]>>

PoolItem(i) ==
    LET item == mem_item(PoolFacts[i].user, "c1", 1, PoolFacts[i].mem, i)
    IN IF i = Len(PoolFacts) THEN [item EXCEPT !.active = FALSE] ELSE item

\* The facts of a set of pool indices, in pool order
Store(S) ==
    [i \in 1..Cardinality(S) |->
        PoolItem(CHOOSE x \in S : Cardinality({y \in S : y < x}) = i - 1)]

\* The profile of a user who finished onboarding
Onboarded(user_id) ==
    Merge(NewUser(user_id),
          Merge(Extracted, [onboarding_step |-> 5, onboarding_complete |-> TRUE]))

InitRank ==
    /\ session_state = NoSession
    /\ now = 0
    /\ s3 = EmptyDict
    /\ ret = Ret("init", "")
    /\ \E S \in SUBSET (1..Len(PoolFacts)) :
          /\ Cardinality(S) <= MaxStored
          /\ table_memories = Store(S)
    /\ \E returning \in BOOLEAN :
          IF returning
          THEN /\ table_users = [u \in {"u1"} |-> Onboarded("u1")]
               /\ table_conversations =
                     [k \in {<<"u1", conversation_id("c1", 1)>>} |->
                         conv_item("u1", "c1", Messages(2), 1, ScenarioA("c1"))]
          ELSE /\ table_users = [u \in {"u1"} |-> NewUser("u1")]
               /\ table_conversations = EmptyDict

\* The remote calls _get_top_memories issues
RankFaultPoints(user_id, character, limit) ==
    {<<"qglobal", 0>>, <<"qchar", 0>>}
        \cup {<<"upd", i>> : i \in 1..Len(TopMemories(user_id, character, limit, {}).mems)}

RefsBounded(tbl) == \A j \in DOMAIN tbl : tbl[j].reference_count <= MaxRefs

GetTopMemories ==
    /\ UNCHANGED session_state
    /\ \E character \in Characters, limit \in 0..MaxLimit :
         \E faults \in FaultSets(RankFaultPoints("u1", character, limit)) :
           /\ RefsBounded(TopMemories("u1", character, limit, faults).table)
           /\ _get_top_memories("u1", character, limit, faults)

BuildContext ==
    /\ UNCHANGED session_state
    /\ \E faults \in FaultSets(RankFaultPoints("u1", "c1", MemoryLimit)
                                   \cup {<<"profile", 0>>, <<"qsum", 0>>}),
          order \in IndexOrders("u1") :
           /\ RefsBounded(TopMemories("u1", "c1", MemoryLimit, faults).table)
           /\ build_memory_context("u1", "c1", faults, order)

NextRank == GetTopMemories \/ BuildContext \/ Tick

SpecRank == InitRank /\ [][NextRank]_vars

Ids(mems) == {mems[i].memory_id : i \in DOMAIN mems}

\* The stored facts a query for ret's user and character can return
IsCandidate(m) ==
    m.user_id = ret.user /\ m.active /\ m.character \in {global, ret.character}

\* C7: _get_top_memories returns the facts in non-increasing importance
\* order, never more than `limit` of them, and no fact it leaves out has a
\* strictly higher importance than a fact it returns.
C7_RankedByImportance ==
    ret.op = "_get_top_memories"
    => /\ \A i, j \in DOMAIN ret.mems :
             i < j => ret.mems[i].importance >= ret.mems[j].importance
       /\ Len(ret.mems) <= ret.n
       /\ \A k \in DOMAIN table_memories :
             (IsCandidate(table_memories[k]) /\ table_memories[k].memory_id \notin Ids(ret.mems))
             => \A i \in DOMAIN ret.mems :
                   table_memories[k].importance <= ret.mems[i].importance

\* C8: _get_top_memories(user, character) returns only stored facts of that
\* user that are active and scoped global or to exactly that character.
C8_OnlyOwnActiveInScope ==
    ret.op = "_get_top_memories"
    => \A i \in DOMAIN ret.mems :
          /\ ret.mems[i].user_id = ret.user
          /\ ret.mems[i].active
          /\ ret.mems[i].character \in {global, ret.character}
          /\ \E k \in DOMAIN table_memories :
                /\ table_memories[k].memory_id = ret.mems[i].memory_id
                /\ table_memories[k].content = ret.mems[i].content

\* a call returned facts while the store also held a fact of another user,
\* a fact of another character and a deactivated fact or a second hit
C8_Witness ==
    /\ ret.op = "_get_top_memories"
    /\ ret.mems # <<>>
    /\ \E k \in DOMAIN table_memories : table_memories[k].user_id # ret.user
    /\ \E k \in DOMAIN table_memories :
          table_memories[k].user_id = ret.user
              /\ table_memories[k].character \notin {global, ret.character}

\* A step that is one call of _get_top_memories
IsRankCall == ret'.op = "_get_top_memories" /\ now' = now

\* The position of a stored fact in the list the call returned, 0 when the
\* call did not return it
ReturnedAt(m) ==
    IF m.memory_id \in Ids(ret'.mems) /\ m.user_id = ret'.user
    THEN CHOOSE i \in DOMAIN ret'.mems : ret'.mems[i].memory_id = m.memory_id
    ELSE 0

Referred(m) == [m EXCEPT !.reference_count = @ + 1, !.last_referenced = now]

\* C9 as stated: one call of _get_top_memories increases the reference count
\* of each returned fact by exactly one and refreshes its last-referenced
\* timestamp, and leaves every fact not in the returned list unchanged.
C9_EveryReturnedFactCounted ==
    [][IsRankCall
        => /\ Len(table_memories') = Len(table_memories)
           /\ \A k \in DOMAIN table_memories :
                 table_memories'[k] = IF ReturnedAt(table_memories[k]) > 0
                                      THEN Referred(table_memories[k])
                                      ELSE table_memories[k]]_vars

\* C9, amended: one call of _get_top_memories increases by exactly one the
\* reference count, and refreshes the last-referenced timestamp, of each
\* returned fact whose update call succeeded; a returned fact whose update
\* call failed and every fact not in the returned list are left unchanged.
C9_ReturnedFactCountedWhenUpdated ==
    [][IsRankCall
        => /\ Len(table_memories') = Len(table_memories)
           /\ \A k \in DOMAIN table_memories :
                 LET i == ReturnedAt(table_memories[k])
                 IN table_memories'[k] = IF i > 0 /\ ret'.calls[2 + i].ok
                                          THEN Referred(table_memories[k])
                                          ELSE table_memories[k]]_vars

\* a call returned two facts, the update of one succeeded and of the other
\* failed, and a third fact in scope stayed below the cutoff
C9_Witness ==
    /\ ret.op = "_get_top_memories"
    /\ Len(ret.mems) = 2
    /\ \E i, j \in 3..4 : ret.calls[i].ok /\ ~ret.calls[j].ok
    /\ \E k \in DOMAIN table_memories :
          /\ IsCandidate(table_memories[k])
          /\ table_memories[k].memory_id \notin Ids(ret.mems)
    /\ \E k \in DOMAIN table_memories :
          table_memories[k].reference_count = 1 /\ table_memories[k].last_referenced = 1

Headings == {"profile_heading", "memory_heading", "critical_heading", "normal_heading",
             "summary_heading"}

\* The heading a line of a text stands under
HeadingOf(lines, p) ==
    LET above == {q \in 1..(p - 1) : lines[q].kind \in Headings}
    IN IF above = {} THEN "none"
       ELSE lines[CHOOSE q \in above : \A q2 \in above : q2 <= q].kind

\* The fact lines of a text that render the fact m
FactLines(lines, m) ==
    {p \in DOMAIN lines : lines[p].kind \in {"critical", "normal"} /\ lines[p].id = m.memory_id}

\* C10: in the text build_memory_context builds (before truncation) every
\* returned fact stands on exactly one line, a fact of importance >= 5 under
\* the must-follow heading and a fact of importance < 5 under the background
\* heading, and every fact of importance >= 5 stands strictly before every
\* fact of importance < 5.
C10_DirectivesBeforeBackground ==
    (ret.op = "build_memory_context" /\ ~ret.raised)
    => /\ \A i \in DOMAIN ret.mems :
             /\ Cardinality(FactLines(ret.full, ret.mems[i])) = 1
             /\ \A p \in FactLines(ret.full, ret.mems[i]) :
                   HeadingOf(ret.full, p) =
                      IF ret.mems[i].importance >= Num(5, 0)
                      THEN "critical_heading" ELSE "normal_heading"
       /\ \A i, j \in DOMAIN ret.mems :
             (ret.mems[i].importance >= Num(5, 0) /\ ret.mems[j].importance < Num(5, 0))
             => \A p \in FactLines(ret.full, ret.mems[i]), q \in FactLines(ret.full, ret.mems[j]) :
                   p < q

\* a context was built from a fact of importance 5 and two facts below 5
C10_Witness ==
    /\ ret.op = "build_memory_context"
    /\ ~ret.raised
    /\ Len(ret.mems) = 3
    /\ \E i \in DOMAIN ret.mems : ret.mems[i].importance = Num(5, 0)
    /\ \E i \in DOMAIN ret.mems : ret.mems[i].importance = Num(4, 8)
    /\ ret.text = ret.full

----------------------------------------------------------------------------
(* The functions the chat loop calls, for one logged-in user and character *)

ApiBuildContext ==
    /\ UNCHANGED session_state
    /\ \E faults \in FaultSets(RankFaultPoints("u1", "c1", MemoryLimit)
                                   \cup {<<"profile", 0>>, <<"qsum", 0>>}),
          order \in IndexOrders("u1") :
           /\ RefsBounded(TopMemories("u1", "c1", MemoryLimit, faults).table)
           /\ build_memory_context("u1", "c1", faults, order)

ApiSaveIncremental ==
    /\ UNCHANGED session_state
    /\ \E okS3 \in BOOLEAN : save_messages_incremental("u1", "c1", MaxTurns, 1, okS3)

ApiSaveConversation ==
    /\ UNCHANGED session_state
    /\ \E resp \in {Garbage, NonObject, Object("none", ScenarioA("c1"))} :
         \E faults \in FaultSets(FaultPoints(resp)) :
           /\ Len(table_memories) + Len(MemoriesOf(resp)) <= MaxFacts
           /\ save_conversation("u1", "c1", MaxTurns, 1, resp, faults)

ApiOnboardingPrompt ==
    /\ UNCHANGED session_state
    /\ \E okGet \in BOOLEAN : get_onboarding_prompt_addition("u1", "c1", okGet)

ApiOnboarding ==
    /\ UNCHANGED session_state
    /\ \E resp \in {Garbage, NonObject, Object("wrapped", Merge(Extracted, [step_complete |-> TRUE]))},
          fUpdate \in BOOLEAN :
           /\ ~StoredComplete("u1")
           /\ process_onboarding_response("u1", StoredStep("u1"), resp, fUpdate)

ApiCompletionPrompt ==
    /\ UNCHANGED session_state
    /\ \E okGet \in BOOLEAN : get_profile_completion_prompt("u1", okGet)

ApiProfileCompletion ==
    /\ UNCHANGED session_state
    /\ \E resp \in CompletionResponses, okGet \in BOOLEAN, okUpdate \in BOOLEAN :
           process_profile_completion("u1", resp, okGet, okUpdate)

NextApi ==
    \/ ApiBuildContext
    \/ ApiSaveIncremental
    \/ ApiSaveConversation
    \/ ApiOnboardingPrompt
    \/ ApiOnboarding
    \/ ApiCompletionPrompt
    \/ ApiProfileCompletion

SpecApi == InitLoggedIn /\ [][NextApi]_vars

Exposed ==
    {"build_memory_context", "save_messages_incremental", "save_conversation",
     "get_onboarding_prompt_addition", "process_onboarding_response",
     "get_profile_completion_prompt", "process_profile_completion"}

\* C2: no function the memory subsystem exposes to the chat loop raises an
\* exception to its caller, whatever remote call fails and whatever text the
\* generation call returns.
C2_NoExposedFunctionRaises == ret.op \in Exposed => ~ret.raised

----------------------------------------------------------------------------
(* The memory context over profiles, facts and summaries of any length *)

\* Facts of u1 visible with c1, some with a content as long as the budget
\* or just short of it
LongFacts ==
    <<[content |-> "essay", importance |-> Num(5, 0)],
      [content |-> "essay-30"],
      [character |-> "c1", content |-> "essay-29"],
      [character |-> "c1", category |-> "preference", content |-> "bias",
       importance |-> Num(2, 0)],
      [content |-> "oppa", importance |-> Num(5, 0)]>>

LongStore(S) ==
    [i \in 1..Cardinality(S) |->
        LET x == CHOOSE x \in S : Cardinality({y \in S : y < x}) = i - 1
        IN mem_item("u1", "c1", 1, LongFacts[x], x)]

InitContext ==
    /\ session_state = NoSession
    /\ now = 0
    /\ s3 = EmptyDict
    /\ ret = Ret("init", "")
    /\ \E S \in SUBSET (1..Len(LongFacts)) :
          /\ Cardinality(S) <= MaxStored
          /\ table_memories = LongStore(S)
    /\ \E profile \in {NewUser("u1"), Onboarded("u1"),
                       Merge(Onboarded("u1"), [nickname |-> "essay", gender |-> "female"])} :
          table_users = [u \in {"u1"} |-> profile]
    /\ \E summaries \in {<<>>, <<"S">>, <<"essay">>, <<"", "S">>} :
          table_conversations =
             [k \in {<<"u1", conversation_id("c1", i)>> : i \in 1..Len(summaries)} |->
                 conv_item("u1", "c1", Messages(2), k[2][2], [summary |-> summaries[k[2][2]]])]

ContextOf ==
    /\ UNCHANGED session_state
    /\ \E faults \in FaultSets(RankFaultPoints("u1", "c1", MemoryLimit)
                                   \cup {<<"profile", 0>>, <<"qsum", 0>>}),
          order \in IndexOrders("u1") :
           /\ RefsBounded(TopMemories("u1", "c1", MemoryLimit, faults).table)
           /\ build_memory_context("u1", "c1", faults, order)

NextContext == ContextOf

SpecContext == InitContext /\ [][NextContext]_vars

\* C11: the length of build_memory_context's output never exceeds 4000 plus
\* the length of the truncation marker; the output is the untruncated text
\* when that is at most 4000 long, and otherwise its first 4000 characters
\* are the first 4000 characters of the untruncated text, followed by the
\* marker alone.
C11_OutputWithinBudget ==
    (ret.op = "build_memory_context" /\ ~ret.raised)
    => /\ TextLen(ret.text) <= ContextBudget + MarkerLen
       /\ TextLen(ret.full) <= ContextBudget => ret.text = ret.full
       /\ TextLen(ret.full) > ContextBudget =>
             /\ TextLen(ret.text) = ContextBudget + MarkerLen
             /\ Prefix(ret.text, ContextBudget) = Prefix(ret.full, ContextBudget)
             /\ ret.text[Len(ret.text)].kind = "marker"
             /\ TextLen(SubSeq(ret.text, 1, Len(ret.text) - 1)) = ContextBudget

\* a text one character over the budget was cut inside its last line
C11_Witness ==
    /\ ret.op = "build_memory_context"
    /\ ~ret.raised
    /\ TextLen(ret.full) = ContextBudget + 1
    /\ TextLen(ret.text) = ContextBudget + MarkerLen
    /\ Len(ret.text) = Len(ret.full) + 1

----------------------------------------------------------------------------
(* Onboarding steps and profile completion *)

\* The arguments of the last call were a step of ONBOARDING_STEPS and the
\* judgment call returned a JSON object
IsJudgedStep(r) ==
    /\ r.op = "process_onboarding_response"
    /\ r.n \in DOMAIN ONBOARDING_STEPS
    /\ r.llm = "object"
    /\ ~r.raised

\* The judgment reported the step as complete: the profile update followed
ReportedComplete(r) == Len(r.calls) = 2

\* C12: in process_onboarding_response with current_step in 0..4, when the
\* judgment call reports the step complete the profile field of that step is
\* written and the step counter becomes current_step + 1, when it reports
\* not complete nothing is written and current_step is returned; hence a
\* step counter past step k means the field of step k holds a value.
C12_CompleteStepWritesField ==
    [][IsJudgedStep(ret')
        => /\ IF ReportedComplete(ret')
              THEN /\ Truthy(table_users'["u1"], ONBOARDING_STEPS[ret'.n])
                   /\ StoredStep("u1")' = ret'.n + 1
                   /\ ret'.step = ret'.n + 1
              ELSE /\ table_users' = table_users
                   /\ ret'.step = ret'.n
           /\ \A k \in DOMAIN ONBOARDING_STEPS :
                 StoredStep("u1")' > k => Truthy(table_users'["u1"], ONBOARDING_STEPS[k])]_vars

UpdateCalls(calls) == {i \in DOMAIN calls : calls[i].api = "users.update_item"}

\* C13: when process_onboarding_response completes step 4 it stores
\* onboarding_step = 5 and onboarding_complete = true with one and the same
\* profile update; a call with current_step outside 0..4 returns the step
\* unchanged, makes no remote call and writes nothing; the stored
\* onboarding_step never exceeds 5.
C13_LastStepCompletes ==
    [][ret'.op = "process_onboarding_response"
        => /\ (ret'.n = 4 /\ ReportedComplete(ret') /\ ~ret'.raised)
              => /\ StoredStep("u1")' = 5
                 /\ StoredComplete("u1")'
                 /\ Cardinality(UpdateCalls(ret'.calls)) = 1
                 /\ ret'.step = 5
           /\ ret'.n \notin 0..4
              => /\ ret'.step = ret'.n
                 /\ ret'.calls = <<>>
                 /\ ~ret'.raised
                 /\ UNCHANGED <<table_users, table_conversations, table_memories, s3>>
           /\ StoredStep("u1")' <= 5]_vars

\* step 4 was completed from a stored step 4
C13_Witness ==
    /\ ret.op = "process_onboarding_response"
    /\ ret.n = 4 /\ ret.step = 5
    /\ StoredStep("u1") = 5 /\ StoredComplete("u1")
    /\ Truthy(table_users["u1"], "kpop_preferences")

\* C14: when the judgment call fails or returns malformed output,
\* process_onboarding_response returns current_step and leaves the stored
\* profile unchanged, and process_profile_completion returns and leaves the
\* profile unchanged.
C14_MalformedJudgmentIgnored ==
    [][(/\ ret'.op \in {"process_onboarding_response", "process_profile_completion"}
        /\ ret'.llm \in {"failed", "nonobject"})
        => /\ ~ret'.raised
           /\ table_users' = table_users
           /\ ret'.op = "process_onboarding_response" => ret'.step = ret'.n]_vars

\* Profile completion after each turn, between onboarding turns
NextCompletion == ApiOnboarding \/ ApiProfileCompletion \/ Tick

SpecCompletion == InitLoggedIn /\ [][NextCompletion]_vars

Applies(profile, resp) ==
    LET parsed == ParseLLM(resp) IN
    /\ ~Truthy(profile, "gender")
    /\ parsed.ok /\ parsed.isdict
    /\ Get(parsed.obj, "confidence", "") = "high"
    /\ Get(parsed.obj, "gender", "") \in {"male", "female"}

\* C15: process_profile_completion changes the profile only when gender is
\* unset and the extraction returns confidence high with the value male or
\* female, and then it sets gender to that value; in every other case the
\* profile is unchanged; no call changes any attribute other than gender
\* (and the update timestamp), in particular not onboarding_step and
\* onboarding_complete.
C15_OnlyConfidentGender ==
    [][\A resp \in CompletionResponses, okGet \in BOOLEAN, okUpdate \in BOOLEAN :
         process_profile_completion("u1", resp, okGet, okUpdate)
         => /\ ~Applies(table_users["u1"], resp) => table_users' = table_users
            /\ (Applies(table_users["u1"], resp) /\ okGet /\ okUpdate)
               => table_users'["u1"]["gender"] = ParseLLM(resp).obj["gender"]
            /\ DOMAIN table_users' = DOMAIN table_users
            /\ DOMAIN table_users["u1"] \subseteq DOMAIN table_users'["u1"]
            /\ \A k \in DOMAIN table_users'["u1"] \ {"gender", "updated_at"} :
                  k \in DOMAIN table_users["u1"] /\ table_users'["u1"][k] = table_users["u1"][k]]_vars

\* gender was stored by a confident extraction, after onboarding had begun
C15_Witness ==
    /\ ret.op = "process_profile_completion"
    /\ Len(ret.calls) = 3 /\ ret.calls[3].ok
    /\ table_users["u1"]["gender"] = "female"
    /\ StoredStep("u1") > 0

----------------------------------------------------------------------------
(* Order of the remote calls of a full save *)

\* The kinds of remote call of a full save, in the claimed order
Kind(api) ==
    CASE api = "bedrock.invoke_model" -> 0
      [] api = "s3.put_object" -> 1
      [] api = "conversations.put_item" -> 2
      [] api = "memories.put_item" -> 3
      [] api = "users.update_item" -> 4

\* C16: within one save_conversation call the single extraction call comes
\* first, and the writes are issued in the order transcript blob, then
\* conversation record, then memory facts, then profile merge; the
\* transcript, the record and the merge are written at most once.
C16_WritesInFixedOrder ==
    (ret.op = "save_conversation" /\ ret.calls # <<>>)
    => /\ ret.calls[1].api = "bedrock.invoke_model"
       /\ \A i, j \in DOMAIN ret.calls :
             i < j => /\ Kind(ret.calls[i].api) <= Kind(ret.calls[j].api)
                      /\ Kind(ret.calls[j].api) # 3 => Kind(ret.calls[i].api) < Kind(ret.calls[j].api)

\* a save issued all four kinds of write, two memory facts among them
C16_Witness ==
    /\ ret.op = "save_conversation"
    /\ Apis(ret.calls) = FullSaveCalls(2, TRUE)

----------------------------------------------------------------------------
(* Recent summaries over the conversation records of earlier sessions *)

\* The sessions earlier saves may have recorded: <<user, character, session start>>
PoolSessions ==
    {<<"u1", "c1", 1>>, <<"u1", "c1", 2>>, <<"u1", "c2", 2>>, <<"u1", "c2", 3>>,
     <<"u2", "c1", 3>>}

InitSummaries ==
    /\ session_state = NoSession
    /\ now = 0
    /\ s3 = EmptyDict
    /\ ret = Ret("init", "")
    /\ table_users = [u \in Users |-> NewUser(u)]
    /\ table_memories = <<>>
    /\ \E S \in SUBSET PoolSessions :
          table_conversations =
             [k \in {<<x[1], conversation_id(x[2], x[3])>> : x \in S} |->
                 conv_item(k[1], k[2][1], Messages(2), k[2][2], [summary |-> "S"])]

GetRecentSummaries ==
    /\ UNCHANGED session_state
    /\ \E character \in Characters, limit \in 0..MaxLimit, okQuery \in BOOLEAN,
          order \in IndexOrders("u1") :
           _get_recent_summaries("u1", character, limit, okQuery, order)

NextSummaries == GetRecentSummaries

SpecSummaries == InitSummaries /\ [][NextSummaries]_vars

\* The stored records of ret's user and character
OwnRecords ==
    {k \in DOMAIN table_conversations :
        k[1] = ret.user /\ table_conversations[k].character = ret.character}

\* C17: _get_recent_summaries(user, character, limit) returns the
\* min(limit, N) most recent records of exactly that user and character,
\* newest first, N being the number of records stored for that pair;
\* records of other characters do not appear and do not reduce the number
\* returned.
C17_MostRecentOfCharacter ==
    (ret.op = "_get_recent_summaries" /\ ret.calls[1].ok)
    => /\ Len(ret.mems) = Min(ret.n, Cardinality(OwnRecords))
       /\ \A i \in DOMAIN ret.mems :
             /\ ret.mems[i].user_id = ret.user
             /\ ret.mems[i].character = ret.character
             /\ <<ret.user, ret.mems[i].conversation_id>> \in OwnRecords
       /\ \A i, j \in DOMAIN ret.mems :
             i < j => ret.mems[i].session_start > ret.mems[j].session_start
       /\ \A k \in OwnRecords, i \in DOMAIN ret.mems :
             table_conversations[k].session_start > ret.mems[i].session_start
             => \E j \in DOMAIN ret.mems : ret.mems[j].conversation_id = k[2]

----------------------------------------------------------------------------
(* The conversation record of a session *)

\* C18: a ConversationRecord is immutable once written: after the record
\* of a session (user, character, session start) exists, no later operation
\* changes any of its attributes.
C18_RecordImmutableOnceWritten ==
    [][\A k \in DOMAIN table_conversations :
          /\ k \in DOMAIN table_conversations'
          /\ table_conversations'[k] = table_conversations[k]]_vars

----------------------------------------------------------------------------
(* The memory store over saves and retrievals *)

\* The importance values an extraction may carry: the prompt asks for 1-5,
\* the reply is whatever the model wrote
ExtractedImportances == {Num(0, 0), Num(2, 0), Num(4, 5), Num(5, 0), Num(7, 0)}

\* The memories of one extraction: one fact, its scope global or the
\* character, its importance any of the values above or missing
ExtractedFacts(character) ==
    {[character |-> scope, category |-> "fact", content |-> "C", importance |-> imp] :
        scope \in {global, character}, imp \in ExtractedImportances}
      \cup {[content |-> "C"]}

\* One full save whose extraction carries the one fact mem
SaveOneFact(character, mem) ==
    LET resp == Object("none", [summary |-> "S", memories |-> <<mem>>]) IN
    \E faults \in FaultSets(FaultPoints(resp)) :
        /\ Len(table_memories) < MaxFacts
        /\ save_conversation("u1", character, 2, 1, resp, faults)

SaveExtracted ==
    /\ UNCHANGED session_state
    /\ \E character \in Characters :
         \E mem \in ExtractedFacts(character) : SaveOneFact(character, mem)

NextImportance == SaveExtracted

SpecImportance == InitLoggedIn /\ [][NextImportance]_vars

\* The facts saved between retrievals: a directive for every character and
\* a preference for c1
SavedFacts ==
    {[character |-> global, category |-> "emphasis", content |-> "oppa",
      importance |-> Num(5, 0)],
     [character |-> "c1", category |-> "preference", content |-> "bias",
      importance |-> Num(2, 0)]}

SaveFact ==
    /\ UNCHANGED session_state
    /\ \E mem \in SavedFacts : SaveOneFact("c1", mem)

NextFacts == SaveFact \/ GetTopMemories \/ Tick

SpecFacts == InitLoggedIn /\ [][NextFacts]_vars

\* C19: every MemoryFact in the store has an integer importance between 1
\* and 5, whatever the extraction call returned.
C19_ImportanceInRange ==
    \A k \in DOMAIN table_memories :
        table_memories[k].importance \in {Num(i, 0) : i \in 1..5}

\* C20: MemoryFacts are append-only: once a fact is written no step changes
\* its key, content, category, scope, importance, source conversation,
\* creation time or active flag, and no step deletes or deactivates it; only
\* reference_count and last_referenced change, and reference_count never
\* decreases.
C20_FactsAppendOnly ==
    [][/\ Len(table_memories') >= Len(table_memories)
       /\ \A k \in DOMAIN table_memories :
             LET old == table_memories[k]
                 new == table_memories'[k]
             IN /\ new = [old EXCEPT !.reference_count = new.reference_count,
                                     !.last_referenced = new.last_referenced]
                /\ new.active
                /\ new.reference_count >= old.reference_count]_vars

\* a fact was written, a later retrieval counted it, and a later save
\* appended a second fact
C20_Witness ==
    /\ ret.op = "save_conversation"
    /\ Len(table_memories) = 2
    /\ table_memories[1].reference_count = 1
    /\ table_memories[1].last_referenced > table_memories[1].created_at
    /\ table_memories[2].reference_count = 0
    /\ table_memories[2].created_at = now

----------------------------------------------------------------------------
(* A full save followed by a retrieval *)

\* An extraction whose two facts carry fractional importances
SaveThenRank ==
    LET fractional ==
          [summary |-> "S",
           memories |-> <<[character |-> global, category |-> "fact",
                           content |-> "a", importance |-> Num(4, 2)],
                          [character |-> "c1", category |-> "preference",
                           content |-> "b", importance |-> Num(4, 8)]>>]
        responses == {Object("none", ScenarioA("c1")), Object("none", fractional),
                      Object("wrapped", ScenarioB)}
    IN
    /\ UNCHANGED session_state
    /\ \E resp \in responses :
         \E faults \in FaultSets(FaultPoints(resp)) :
           /\ Len(table_memories) + Len(MemoriesOf(resp)) <= MaxStored
           /\ save_conversation("u1", "c1", 2, 1, resp, faults)

SpecRoundTrip == InitLoggedIn /\ [][SaveThenRank \/ GetTopMemories]_vars

\* The call r was a full save in which every remote call succeeded
SavedOk(r) ==
    /\ r.op = "save_conversation" /\ ~r.raised /\ r.llm = "object"
    /\ r.calls # <<>>
    /\ \A i \in DOMAIN r.calls : r.calls[i].ok

\* The facts the save r appended to the table
NewFacts(r) ==
    SubSeq(table_memories, Len(table_memories) - r.extracted + 1, Len(table_memories))

\* The stored facts in the scope of a retrieval for (user_id, character)
InScope(user_id, character) ==
    SelectSeq(table_memories,
              LAMBDA m : m.user_id = user_id /\ m.active
                         /\ m.character \in {global, character})

\* C21: after save_conversation for user u and character c succeeds with an
\* extraction of k <= limit memories, each scoped global or c, the next
\* _get_top_memories(u, c, limit) returns min(limit, facts in scope) facts,
\* the k new ones among them when all facts in scope fit the limit, ordered
\* with the highest importance first.
C21_StoreThenRank ==
    [][(/\ SavedOk(ret)
        /\ ret'.op = "_get_top_memories"
        /\ ret'.user = ret.user /\ ret'.character = ret.character
        /\ ret.extracted <= ret'.n
        /\ \A i \in DOMAIN ret'.calls : ret'.calls[i].api = "memories.query" => ret'.calls[i].ok
        /\ \A i \in DOMAIN NewFacts(ret) :
              NewFacts(ret)[i].character \in {global, ret.character})
       => LET scope == InScope(ret.user, ret.character) IN
          /\ Len(ret'.mems) = Min(ret'.n, Len(scope))
          /\ Len(scope) <= ret'.n => Ids(NewFacts(ret)) \subseteq Ids(ret'.mems)
          /\ \A i, j \in DOMAIN ret'.mems :
                i < j => ret'.mems[i].importance >= ret'.mems[j].importance]_vars

----------------------------------------------------------------------------
(* Text generation requests *)

MaxEvents == 3

haiku_model_id == "us.anthropic.claude-haiku-4-5-20251001-v1:0"
sonnet_4_5_model_id == "us.anthropic.claude-sonnet-4-5-20250929-v1:0"
sonnet_4_model_id == "us.anthropic.claude-sonnet-4-20250514-v1:0"

primary_model_id(complexity) ==
    IF complexity = "simple" THEN haiku_model_id ELSE sonnet_4_5_model_id

\* What an invocation does: the call itself raises, or it returns a stream
\* of events: a text delta, an event that carries no text, or an event at
\* which reading the stream raises
Raises == [raises |-> TRUE, stream |-> <<>>]

Invocations ==
    {Raises} \cup {[raises |-> FALSE, stream |-> s] :
                      s \in UNION {[1..n -> {"delta", "other", "error"}] :
                                       n \in 0..MaxEvents}}

\* The position at which reading the stream raises, 0 when it is read to its end
FirstError(stream) ==
    IF \E i \in DOMAIN stream : stream[i] = "error"
    THEN CHOOSE i \in DOMAIN stream :
            stream[i] = "error" /\ \A j \in 1..(i - 1) : stream[j] # "error"
    ELSE 0

Apology == [kind |-> "apology", id |-> 0]

\* generate_character_response, lines 302-438.  known: the character has an
\* entry; classified: the classifier's answer; primary, fallback: what the
\* invocation of each model does; the fallback model is invoked when the
\* primary call raises (lines 412-422).  A streaming call is recorded under its
\* model id, ok when the call returned and its stream was read to the end.
generate_character_response(character, known, classified, primary, fallback) ==
    LET r == [Ret("generate_character_response", "u1") EXCEPT !.character = character]
        \* _classify_message_complexity: the except branch answers complex
        complexity == IF classified = "simple" THEN "simple" ELSE "complex"
        classify == <<Call("bedrock.invoke_model", classified # "failed")>>
        Ok(inv) == ~inv.raises /\ FirstError(inv.stream) = 0
        first == Call(primary_model_id(complexity), Ok(primary))
        second == Call(sonnet_4_model_id, Ok(fallback))
        used == IF primary.raises THEN fallback ELSE primary
        \* lines 424-433: the chunks yielded before the stream ends or raises
        Yielded(stream) ==
            LET e == FirstError(stream)
                read == IF e = 0 THEN stream ELSE SubSeq(stream, 1, e - 1)
                positions == [i \in DOMAIN read |-> [kind |-> read[i], id |-> i]]
            IN SelectSeq(positions, LAMBDA c : c.kind = "delta")
        calls == classify \o <<first>>
                    \o (IF primary.raises THEN <<second>> ELSE <<>>)
    IN
    /\ UNCHANGED <<table_users, table_conversations, table_memories, s3, now>>
    /\ IF ~known
       THEN ret' = [r EXCEPT !.text = <<[kind |-> "unknown", id |-> 0]>>]
       ELSE ret' = [r EXCEPT
                       !.llm = complexity, !.calls = calls,
                       !.text = IF used.raises THEN <<Apology>>
                                ELSE Yielded(used.stream)
                                       \o (IF FirstError(used.stream) # 0
                                           THEN <<Apology>> ELSE <<>>)]

GenerateReply ==
    /\ UNCHANGED session_state
    /\ \E character \in Characters, known \in BOOLEAN,
          classified \in {"simple", "complex", "failed"}, primary \in Invocations :
         \E fallback \in IF primary.raises THEN Invocations ELSE {Raises} :
           generate_character_response(character, known, classified, primary, fallback)

\* The single generation call of _extract_all_from_conversation, lines
\* 384-416: one invocation of the Haiku model, the zeroed structure on failure
ExtractRequest ==
    /\ UNCHANGED <<session_state, table_users, table_conversations, table_memories, s3, now>>
    /\ \E resp \in ExtractionResponses("c1") :
          ret' = [Ret("_extract_all_from_conversation", "u1") EXCEPT
                     !.calls = <<Call(haiku_model_id, resp.transport)>>,
                     !.llm = Outcome(ParseLLM(resp)),
                     !.extracted = Len(MemoriesOf(resp))]

SpecGenerate == InitLoggedIn /\ [][GenerateReply \/ ExtractRequest]_vars

IsRequest(r) == r.op \in {"generate_character_response", "_extract_all_from_conversation"}

\* The invocations of the generation model in the calls of r (the classifier
\* call of generate_character_response is not one of them)
GenCalls(r) == SelectSeq(r.calls, LAMBDA c : c.api # "bedrock.invoke_model")

\* The primary model of the request r
PrimaryOf(r) ==
    IF r.op = "generate_character_response" THEN primary_model_id(r.llm)
    ELSE haiku_model_id

\* C22: a text-generation request tries the primary model id first and, on
\* any failure of the primary, retries exactly once against the secondary
\* model id; the secondary is never invoked when the primary succeeded, at
\* most two model invocations are made per request, and the caller sees
\* final text or a final failure value, never an exception.
C22_PrimaryThenFallbackOnce ==
    (IsRequest(ret) /\ GenCalls(ret) # <<>>)
    => LET g == GenCalls(ret) IN
       /\ Len(g) <= 2
       /\ g[1].api = PrimaryOf(ret)
       /\ g[1].ok => Len(g) = 1
       /\ ~g[1].ok => (Len(g) = 2 /\ g[2].api = sonnet_4_model_id)
       /\ ~ret.raised

----------------------------------------------------------------------------
(* The chat application: one browser session's st.session_state and the   *)
(* steps of its script runs (character_chatbot.py main,                   *)
(* character_chatbot_auth.py render_user_profile_sidebar)                 *)

MaxInteractions == 9      \* what the user of one browser session does, at most
MaxConcurrent == 4        \* the same, for each of two concurrent sessions

FullSaveThreshold == 6

\* st.session_state of a browser session before login.  messages[c] is
\* len(st.session_state.messages[c]) (the list is Messages of that length),
\* session_start[c] = 0 and user_profile = EmptyDict stand for an absent key;
\* pc is the statement the running script has reached, budget and
\* interactions bound what the user does.
NewSession(budget) ==
    [auth_user_id |-> "", user_profile |-> EmptyDict,
     messages |-> [c \in Characters |-> 0],
     session_start |-> [c \in Characters |-> 0],
     last_full_save |-> [c \in Characters |-> 0],
     current_character |-> "", pc |-> "idle",
     starts |-> 0, interactions |-> 0, budget |-> budget]

SetSession(s, S) == session_state' = [session_state EXCEPT ![s] = S]

\* The user of session s may act: no script run is under way
Idle(s) ==
    /\ session_state[s].pc = "idle"
    /\ session_state[s].interactions < session_state[s].budget

Acted(S) == [S EXCEPT !.interactions = @ + 1]

\* lines 2556-2561: the message list and the session start of the selected
\* character exist from the first run on.  The session start is
\* datetime.now(timezone.utc).isoformat(): later than every earlier reading
\* of the session, distinct between sessions
WithSessionStart(s, S, c) ==
    IF S.session_start[c] = 0
    THEN [S EXCEPT !.session_start[c] = 10 * (S.starts + 1) + s, !.starts = @ + 1]
    ELSE S

\* What the extraction returns for the first n messages of a conversation:
\* the user stated one lasting fact in the first turn
ExtractionOf(n) ==
    Object("none", [summary |-> "S",
                    memories |-> <<[character |-> global, category |-> "emphasis",
                                    content |-> "oppa", importance |-> Num(5, 0)]>>])

\* lines 2378-2389: after authentication the manager is created and the
\* profile returned by get_or_create_user is cached; when the call raises
\* the manager stays and no profile is cached
ChatLogin(s, user_id, fGet, fWrite) ==
    LET S == session_state[s]
        item == IF user_id \in DOMAIN table_users
                THEN table_users[user_id] ELSE NewUser(user_id)
        \* what the chat loop reads from the cached profile (lines 2718-2720)
        cached == [onboarding_step |-> Get(item, "onboarding_step", 0),
                   onboarding_complete |-> Get(item, "onboarding_complete", FALSE)]
    IN
    /\ Idle(s) /\ S.auth_user_id = ""
    /\ get_or_create_user(user_id, fGet, fWrite)
    /\ SetSession(s, Acted([S EXCEPT
                               !.auth_user_id = user_id,
                               !.user_profile = IF ret'.raised THEN EmptyDict
                                                ELSE cached]))

\* lines 2541-2561: a run with another character selected saves the
\* conversation of the previous one
SelectCharacter(s, c) ==
    LET S == session_state[s]
        prev_char == S.current_character
        selected == WithSessionStart(s, [S EXCEPT !.current_character = c], c)
    IN
    /\ Idle(s) /\ S.auth_user_id # "" /\ prev_char # c
    /\ IF prev_char # "" /\ S.messages[prev_char] >= 2
       THEN /\ save_conversation(S.auth_user_id, prev_char, S.messages[prev_char],
                                 S.session_start[prev_char],
                                 ExtractionOf(S.messages[prev_char]), {})
            /\ SetSession(s, Acted(IF ret'.raised THEN S ELSE selected))
       ELSE /\ SetSession(s, Acted(selected))
            /\ UNCHANGED <<table_users, table_conversations, table_memories, s3, now, ret>>

\* lines 2516-2526: clear history saves the conversation, empties the list
\* and drops the session start; the rerun sets a new one
ClearHistory(s) ==
    LET S == session_state[s]
        c == S.current_character
        cleared == WithSessionStart(s, [S EXCEPT !.messages[c] = 0,
                                                 !.session_start[c] = 0], c)
    IN
    /\ Idle(s) /\ S.auth_user_id # "" /\ c # ""
    /\ IF S.messages[c] >= 2
       THEN /\ save_conversation(S.auth_user_id, c, S.messages[c], S.session_start[c],
                                 ExtractionOf(S.messages[c]), {})
            /\ SetSession(s, Acted(IF ret'.raised THEN S ELSE cleared))
       ELSE /\ SetSession(s, Acted(cleared))
            /\ UNCHANGED <<table_users, table_conversations, table_memories, s3, now, ret>>

\* The statements of one chat turn (lines 2632-2739), in program order; a
\* call that raises ends the script run where it is
TurnSteps ==
    <<"context", "onboarding_prompt", "completion_prompt", "generate", "append",
      "incremental", "threshold", "onboarding", "completion">>

\* The position after step pc: the next statement, or the end of the run
\* when the call raised or the turn is over
After(pc, raised) ==
    LET i == CHOOSE k \in DOMAIN TurnSteps : TurnSteps[k] = pc
    IN IF raised \/ i = Len(TurnSteps) THEN "idle" ELSE TurnSteps[i + 1]

\* lines 2632-2638: the user's message is appended
Submit(s) ==
    LET S == session_state[s]
        c == S.current_character
    IN
    /\ Idle(s) /\ S.auth_user_id # "" /\ c # ""
    /\ SetSession(s, Acted([S EXCEPT !.messages[c] = @ + 1, !.pc = "context"]))
    /\ UNCHANGED <<table_users, table_conversations, table_memories, s3, now, ret>>

\* lines 2643-2646
TurnContext(s, okGet, order) ==
    LET S == session_state[s] IN
    /\ session_state[s].pc = "context"
    /\ build_memory_context(S.auth_user_id, S.current_character,
                            IF okGet THEN {} ELSE {<<"profile", 0>>}, order)
    /\ SetSession(s, [S EXCEPT !.pc = After("context", ret'.raised)])

\* lines 2647-2649
TurnOnboardingPrompt(s, okGet) ==
    LET S == session_state[s] IN
    /\ session_state[s].pc = "onboarding_prompt"
    /\ get_onboarding_prompt_addition(S.auth_user_id, S.current_character, okGet)
    /\ SetSession(s, [S EXCEPT !.pc = After("onboarding_prompt", ret'.raised)])

\* lines 2650-2652
TurnCompletionPrompt(s, okGet) ==
    LET S == session_state[s] IN
    /\ session_state[s].pc = "completion_prompt"
    /\ get_profile_completion_prompt(S.auth_user_id, okGet)
    /\ SetSession(s, [S EXCEPT !.pc = After("completion_prompt", ret'.raised)])

\* lines 2655-2671: the reply is streamed; the generator does not raise
TurnGenerate(s, primary, fallback) ==
    LET S == session_state[s] IN
    /\ session_state[s].pc = "generate"
    /\ generate_character_response(S.current_character, TRUE, "simple", primary, fallback)
    /\ SetSession(s, [S EXCEPT !.pc = After("generate", FALSE)])

\* lines 2673-2690: the image is chosen inside a try, the reply is appended
TurnAppend(s) ==
    LET S == session_state[s] IN
    /\ session_state[s].pc = "append"
    /\ SetSession(s, [S EXCEPT !.messages[S.current_character] = @ + 1,
                               !.pc = After("append", FALSE)])
    /\ UNCHANGED <<table_users, table_conversations, table_memories, s3, now, ret>>

\* lines 2692-2703
TurnIncremental(s, okS3) ==
    LET S == session_state[s]
        c == S.current_character
    IN
    /\ session_state[s].pc = "incremental"
    /\ save_messages_incremental(S.auth_user_id, c, S.messages[c], S.session_start[c], okS3)
    /\ SetSession(s, [S EXCEPT !.pc = After("incremental", FALSE)])

\* lines 2706-2708: len(msgs) - last_full_save >= 6
ThresholdReached(S, c) == S.messages[c] - S.last_full_save[c] >= FullSaveThreshold

\* lines 2705-2715
TurnThreshold(s, resp, faults) ==
    LET S == session_state[s]
        c == S.current_character
    IN
    /\ session_state[s].pc = "threshold"
    /\ IF ThresholdReached(S, c)
       THEN /\ save_conversation(S.auth_user_id, c, S.messages[c], S.session_start[c],
                                 resp, faults)
            /\ SetSession(s, IF ret'.raised
                             THEN [S EXCEPT !.pc = After("threshold", TRUE)]
                             ELSE [S EXCEPT !.pc = After("threshold", FALSE),
                                            !.last_full_save[c] = S.messages[c]])
       ELSE /\ SetSession(s, [S EXCEPT !.pc = After("threshold", FALSE)])
            /\ UNCHANGED <<table_users, table_conversations, table_memories, s3, now, ret>>

\* lines 2717-2731: the onboarding transition, from the cached profile
TurnOnboarding(s, resp, fUpdate) ==
    LET S == session_state[s]
        profile == S.user_profile
        current_step == Get(profile, "onboarding_step", 0)
    IN
    /\ session_state[s].pc = "onboarding"
    /\ IF ~Get(profile, "onboarding_complete", FALSE)
       THEN /\ process_onboarding_response(S.auth_user_id, current_step, resp, fUpdate)
            /\ LET new_step == ret'.step
                   stepped == Merge(profile, [onboarding_step |-> new_step])
                   cached == IF new_step > 4
                             THEN Merge(stepped, [onboarding_complete |-> TRUE])
                             ELSE stepped
               IN SetSession(s, [S EXCEPT
                                    !.pc = After("onboarding", ret'.raised),
                                    !.user_profile = IF ret'.raised \/ new_step = current_step
                                                     THEN profile ELSE cached])
       ELSE /\ SetSession(s, [S EXCEPT !.pc = After("onboarding", FALSE)])
            /\ UNCHANGED <<table_users, table_conversations, table_memories, s3, now, ret>>

\* lines 2733-2739: profile completion, then st.rerun()
TurnCompletion(s, resp, okGet, okUpdate) ==
    LET S == session_state[s] IN
    /\ session_state[s].pc = "completion"
    /\ process_profile_completion(S.auth_user_id, resp, okGet, okUpdate)
    /\ SetSession(s, [S EXCEPT !.pc = After("completion", ret'.raised)])

\* character_chatbot_auth.py lines 281-308: logout saves the conversation of
\* every character (here in the order c1, c2), each inside a try, then drops
\* the auth_ keys, the manager and the cached profile; the message lists,
\* the session starts and last_full_save stay in the session state
LogoutOrder == <<"c1", "c2">>

BeginLogout(s) ==
    LET S == session_state[s] IN
    /\ Idle(s) /\ S.auth_user_id # ""
    /\ SetSession(s, Acted([S EXCEPT !.pc = "logout_1"]))
    /\ UNCHANGED <<table_users, table_conversations, table_memories, s3, now, ret>>

LogoutSave(s, i) ==
    LET S == session_state[s]
        char == LogoutOrder[i]
        next == IF i = Len(LogoutOrder) THEN "logout_end" ELSE "logout_2"
    IN
    /\ session_state[s].pc = (IF i = 1 THEN "logout_1" ELSE "logout_2")
    /\ SetSession(s, [S EXCEPT !.pc = next])
    /\ IF S.messages[char] >= 2
       THEN save_conversation(S.auth_user_id, char, S.messages[char],
                              WithSessionStart(s, S, char).session_start[char],
                              ExtractionOf(S.messages[char]), {})
       ELSE UNCHANGED <<table_users, table_conversations, table_memories, s3, now, ret>>

EndLogout(s) ==
    LET S == session_state[s] IN
    /\ session_state[s].pc = "logout_end"
    /\ SetSession(s, [S EXCEPT !.auth_user_id = "", !.user_profile = EmptyDict,
                               !.pc = "idle"])
    /\ UNCHANGED <<table_users, table_conversations, table_memories, s3, now, ret>>

\* The steps of the open sessions, with the replies and failures of the
\* remote calls that the chat specifications consider
NextChat ==
    \/ \E s \in DOMAIN session_state : ChatLogin(s, "u1", TRUE, TRUE)
    \/ \E s \in DOMAIN session_state, c \in Characters : SelectCharacter(s, c)
    \/ \E s \in DOMAIN session_state : ClearHistory(s)
    \/ \E s \in DOMAIN session_state : Submit(s)
    \/ \E s \in DOMAIN session_state, okGet \in BOOLEAN :
         \E order \in IndexOrders(session_state[s].auth_user_id) :
           TurnContext(s, okGet, order)
    \/ \E s \in DOMAIN session_state : TurnOnboardingPrompt(s, TRUE)
    \/ \E s \in DOMAIN session_state : TurnCompletionPrompt(s, TRUE)
    \/ \E s \in DOMAIN session_state :
         TurnGenerate(s, [raises |-> FALSE, stream |-> <<"delta">>], Raises)
    \/ \E s \in DOMAIN session_state : TurnAppend(s)
    \/ \E s \in DOMAIN session_state, okS3 \in BOOLEAN : TurnIncremental(s, okS3)
    \/ \E s \in DOMAIN session_state :
         TurnThreshold(s, ExtractionOf(session_state[s].messages[
                                          session_state[s].current_character]), {})
    \/ \E s \in DOMAIN session_state,
          resp \in {Garbage, Object("wrapped", Merge(Extracted, [step_complete |-> TRUE]))} :
         TurnOnboarding(s, resp, TRUE)
    \/ \E s \in DOMAIN session_state :
         TurnCompletion(s, Object("none", [gender |-> "female", confidence |-> "high"]),
                        TRUE, TRUE)
    \/ \E s \in DOMAIN session_state : BeginLogout(s)
    \/ \E s \in DOMAIN session_state, i \in DOMAIN LogoutOrder : LogoutSave(s, i)
    \/ \E s \in DOMAIN session_state : EndLogout(s)

\* One browser session, nobody registered yet
InitChat ==
    /\ now = 0
    /\ table_users = EmptyDict
    /\ table_conversations = EmptyDict
    /\ table_memories = <<>>
    /\ s3 = EmptyDict
    /\ ret = Ret("init", "")
    /\ session_state = [s \in {1} |-> NewSession(MaxInteractions)]

SpecChat == InitChat /\ [][NextChat]_vars

\* The call each statement of the turn makes ("" for a statement that calls
\* nothing of the manager or the chatbot)
CallOf(pc) ==
    CASE pc = "context" -> "build_memory_context"
      [] pc = "onboarding_prompt" -> "get_onboarding_prompt_addition"
      [] pc = "completion_prompt" -> "get_profile_completion_prompt"
      [] pc = "generate" -> "generate_character_response"
      [] pc = "incremental" -> "save_messages_incremental"
      [] pc = "threshold" -> "save_conversation"
      [] pc = "onboarding" -> "process_onboarding_response"
      [] pc = "completion" -> "process_profile_completion"
      [] OTHER -> ""

InTurn(S) == \E k \in DOMAIN TurnSteps : TurnSteps[k] = S.pc

\* C23: every user turn runs its steps in this order: append the user turn,
\* build the memory context, generate the reply, append the assistant turn,
\* save the transcript incrementally, optionally run the full save, then the
\* onboarding transition (only while the cached profile is not complete) and
\* the profile-completion step, exactly once each: each step of a turn is
\* followed by the next one, and the turn ends after profile completion.
C23_TurnRunsEveryStepInOrder ==
    [][\A s \in DOMAIN session_state :
         LET S == session_state[s]
             T == session_state'[s]
             c == S.current_character
         IN T # S =>
            /\ (S.pc = "idle" /\ T.pc # "idle" /\ T.pc # "logout_1")
               => (T.pc = "context" /\ T.messages[c] = S.messages[c] + 1)
            /\ InTurn(S) =>
               /\ T.pc = After(S.pc, FALSE)
               /\ S.pc = "append" => T.messages[c] = S.messages[c] + 1
               /\ (S.pc = "onboarding" /\ Get(S.user_profile, "onboarding_complete", FALSE))
                  => ret' = ret
               /\ (S.pc = "threshold" /\ ~ThresholdReached(S, c)) => ret' = ret
               /\ ret' # ret => ret'.op = CallOf(S.pc)
               /\ (S.pc \in {"context", "generate", "incremental", "completion"}
                   \/ (S.pc = "onboarding"
                       /\ ~Get(S.user_profile, "onboarding_complete", FALSE)))
                  => ret'.op = CallOf(S.pc)]_vars

----------------------------------------------------------------------------
(* Transcript durability in the chat loop *)

\* The transcript blob of the current session of s (user, selected
\* character, its session start) holds exactly the in-memory message list
Durable(s) ==
    LET S == session_state[s]
        c == S.current_character
        key == s3_log_path(S.auth_user_id, c, S.session_start[c])
    IN /\ c # ""
       /\ key \in DOMAIN s3
       /\ s3[key].messages = LogMessages(Messages(S.messages[c]))

\* The step taken is the incremental save of s, and its put_object succeeded
FlushedBy(s) ==
    /\ session_state[s].pc = "incremental"
    /\ session_state'[s].pc # "incremental"
    /\ ret'.op = "save_messages_incremental"
    /\ ret'.calls = <<Call("s3.put_object", TRUE)>>

\* The rest of a turn after its incremental save
AfterFlush == {"threshold", "onboarding", "completion"}

----------------------------------------------------------------------------
(* The sections of the memory context *)

\* The stored data build_memory_context reads.  Facts: the short facts of
\* LongFacts (one of c1, one global directive).  Profiles, with and without
\* a rendered field: none, a new user, a preference map that holds only
\* empty values, a gender alone, a finished onboarding.  Summaries of the
\* stored conversations of u1 with c1, oldest first.
InitSections ==
    /\ session_state = NoSession
    /\ now = 0
    /\ s3 = EmptyDict
    /\ ret = Ret("init", "")
    /\ \E S \in SUBSET {Len(LongFacts) - 1, Len(LongFacts)} : table_memories = LongStore(S)
    /\ \/ table_users = EmptyDict
       \/ \E profile \in {NewUser("u1"),
                           Merge(NewUser("u1"),
                                 [kpop_preferences |-> [favorite_group |-> "",
                                                        favorite_groups |-> <<>>]]),
                           Merge(NewUser("u1"), [gender |-> "male"]),
                           Onboarded("u1")} :
             table_users = [u \in {"u1"} |-> profile]
    /\ \E summaries \in {<<>>, <<"">>, <<"S">>, <<"", "S">>} :
          table_conversations =
             [k \in {<<"u1", conversation_id("c1", i)>> : i \in 1..Len(summaries)} |->
                 conv_item("u1", "c1", Messages(2), k[2][2], [summary |-> summaries[k[2][2]]])]

SpecSections == InitSections /\ [][NextContext]_vars

\* The profile fields build_memory_context renders, the preference map apart
RenderedFields == {"nickname", "gender", "birthday", "interests", "preferred_topics"}

HasRenderedField(profile) ==
    \/ \E k \in RenderedFields : Truthy(profile, k)
    \/ LET kpop == Get(profile, "kpop_preferences", EmptyDict)
       IN \E k \in DOMAIN kpop : Truthy(kpop, k)

\* The section headings of a text, in the order they appear
SectionHeadings == {"profile_heading", "memory_heading", "summary_heading"}

HeadingsOf(text) ==
    LET heads == SelectSeq(text, LAMBDA line : line.kind \in SectionHeadings)
    IN [i \in 1..Len(heads) |-> heads[i].kind]

IsPrefixOf(a, b) == Len(a) <= Len(b) /\ a = SubSeq(b, 1, Len(a))

\* C25: build_memory_context returns the empty string exactly when no
\* section has content (the profile is absent or has no non-empty rendered
\* field, _get_top_memories returns no fact, no recent conversation record
\* has a non-empty summary); otherwise the result is non-empty and the
\* sections that have content appear in the order profile, memories, recent
\* summaries.
C25_EmptyIffNoSection ==
    [][\A faults \in FaultSets(RankFaultPoints("u1", "c1", MemoryLimit)
                                  \cup {<<"profile", 0>>, <<"qsum", 0>>}),
          order \in IndexOrders("u1") :
          (build_memory_context("u1", "c1", faults, order) /\ ~ret'.raised) =>
            LET profile == IF "u1" \in DOMAIN table_users THEN table_users["u1"] ELSE EmptyDict
                facts == TopMemories("u1", "c1", MemoryLimit, faults).mems
                summaries == IF <<"qsum", 0>> \in faults THEN <<>>
                             ELSE RecentSummaries("c1", SummaryLimit, order)
                hasProfile == HasRenderedField(profile)
                hasFacts == facts # <<>>
                hasSummary == \E i \in DOMAIN summaries : Truthy(summaries[i], "summary")
            IN /\ (ret'.text = <<>>) <=> ~(hasProfile \/ hasFacts \/ hasSummary)
               /\ HeadingsOf(ret'.full) =
                     (IF hasProfile THEN <<"profile_heading">> ELSE <<>>)
                     \o (IF hasFacts THEN <<"memory_heading">> ELSE <<>>)
                     \o (IF hasSummary THEN <<"summary_heading">> ELSE <<>>)
               /\ IsPrefixOf(HeadingsOf(ret'.text), HeadingsOf(ret'.full))]_vars

\* an empty context for a user whose profile holds a preference map of empty
\* values and whose only conversation record has an empty summary
C25_Witness ==
    /\ ret.op = "build_memory_context"
    /\ ~ret.raised
    /\ \A i \in DOMAIN ret.calls : ret.calls[i].ok
    /\ ret.text = <<>>
    /\ "u1" \in DOMAIN table_users
    /\ Get(table_users["u1"], "kpop_preferences", EmptyDict) # EmptyDict
    /\ DOMAIN table_conversations # {}

----------------------------------------------------------------------------
(* The threshold full save *)

\* The number of messages of the current session of s with character c that
\* a full save has covered: the message count of its conversation record
Covered(s, c) ==
    LET S == session_state[s]
        key == <<S.auth_user_id, conversation_id(c, S.session_start[c])>>
    IN IF key \in DOMAIN table_conversations
       THEN table_conversations[key].message_count ELSE 0

\* C26: whenever a turn ends with the character's message list holding at
\* least 6 messages that no full save of the current session has covered,
\* that turn invokes save_conversation on the full list, after any sequence
\* of turns, history clears and character switches.
C26_SixUncoveredMessagesAreSaved ==
    [][\A s \in DOMAIN session_state :
         LET S == session_state[s]
             c == S.current_character
         IN (/\ S.pc = "threshold"
             /\ session_state'[s] # S
             /\ S.messages[c] - Covered(s, c) >= FullSaveThreshold)
            => /\ ret'.op = "save_conversation"
               /\ ret'.character = c
               /\ ret'.session = S.session_start[c]
               /\ ret'.n = S.messages[c]]_vars

----------------------------------------------------------------------------
(* Repeated full saves of one session *)

\* The facts stored for user_id whose source is conversation conv
FactsOfSession(user_id, conv) ==
    SelectSeq(table_memories,
              LAMBDA m : m.user_id = user_id /\ m.source_conversation = conv)

\* C27: repeated full saves of one session (at the threshold, on character
\* switch, on clear history, on logout) do not duplicate memories: the
\* number of facts stored for a session equals the number extracted from
\* its turns once.
C27_NoDuplicateFacts ==
    \A key \in DOMAIN table_conversations :
        Len(FactsOfSession(key[1], key[2]))
          = Len(MemoriesOf(ExtractionOf(table_conversations[key].message_count)))

----------------------------------------------------------------------------
(* Two concurrent chat sessions of one user *)

\* Two browser sessions, nobody registered yet; both log in as u1
InitTwoSessions ==
    /\ now = 0
    /\ table_users = EmptyDict
    /\ table_conversations = EmptyDict
    /\ table_memories = <<>>
    /\ s3 = EmptyDict
    /\ ret = Ret("init", "")
    /\ session_state = [s \in {1, 2} |-> NewSession(MaxConcurrent)]

SpecTwoSessions == InitTwoSessions /\ [][NextChat]_vars

\* C28: with two concurrent sessions of one user, each driving onboarding
\* from the profile it cached at login, every interleaving of their turns
\* keeps the stored onboarding_step non-decreasing, never stores
\* onboarding_complete true with a step below 5, and the step a session
\* passes to process_onboarding_response always equals the stored step.
C28_ConcurrentOnboardingMonotone ==
    [][/\ \A u \in DOMAIN table_users :
            /\ StoredStep(u)' >= StoredStep(u)
            /\ StoredComplete(u)' => StoredStep(u)' >= 5
       /\ \A s \in DOMAIN session_state :
            (/\ session_state[s].pc = "onboarding"
             /\ session_state'[s] # session_state[s]
             /\ ~Get(session_state[s].user_profile, "onboarding_complete", FALSE))
            => /\ session_state[s].auth_user_id \in DOMAIN table_users
               /\ Get(session_state[s].user_profile, "onboarding_step", 0)
                     = StoredStep(session_state[s].auth_user_id)]_vars

----------------------------------------------------------------------------
(* The profile merge of save_conversation *)

\* What the extraction may return as new_user_info: nothing, none of the
\* recognised keys, an empty value, each recognised key, all of them, and
\* keys that bear the names of other profile attributes
MergeResponses ==
    LET infos ==
          {EmptyDict,
           [hobby |-> "dance"],
           [favorite_group |-> ""],
           [favorite_group |-> "ATEEZ"],
           [nickname |-> "Mina"],
           [birthday |-> "2000-01-01"],
           [favorite_group |-> "ATEEZ", nickname |-> "Mina", birthday |-> "2000-01-01"],
           [favorite_group |-> "ATEEZ", gender |-> "male", onboarding_step |-> 0,
            onboarding_complete |-> FALSE, total_sessions |-> 0]}
    IN {Garbage, NonObject}
          \cup {Object("none", [summary |-> "S", new_user_info |-> info]) : info \in infos}

\* new_user_info of the extraction result ({} when there is none)
NewInfoOf(resp) ==
    LET parsed == _extract_all_from_conversation(resp)
    IN IF parsed.isdict THEN Get(parsed.obj, "new_user_info", EmptyDict) ELSE EmptyDict

\* u1 has just registered, or has finished onboarding and stated a gender
InitMerge ==
    /\ session_state = NoSession
    /\ now = 0
    /\ \E profile \in {NewUser("u1"), Merge(Onboarded("u1"), [gender |-> "female"])} :
          table_users = [u \in {"u1"} |-> profile]
    /\ table_conversations = EmptyDict
    /\ table_memories = <<>>
    /\ s3 = EmptyDict
    /\ ret = Ret("init", "")

\* The users update_item succeeds or raises
MergeSave ==
    /\ UNCHANGED session_state
    /\ \E resp \in MergeResponses, faults \in SUBSET {<<"profile", 0>>} :
            save_conversation("u1", "c1", MaxTurns, 1, resp, faults)

SpecMerge == InitMerge /\ [][MergeSave \/ Tick]_vars

\* The profile attributes the merge may write, and the keys of new_user_info
\* it recognises
MergeWrites == {"nickname", "birthday", "kpop_preferences", "updated_at"}
Recognised == {"favorite_group", "birthday", "nickname"}

\* The attribute k of the items before and after is the same (absent in both
\* or equal)
SameAttribute(before, after, k) ==
    /\ k \in DOMAIN before <=> k \in DOMAIN after
    /\ k \in DOMAIN before => after[k] = before[k]

\* C29: the profile merge of save_conversation writes at most nickname,
\* birthday and the preference map (plus the update timestamp); for every
\* extraction result it leaves onboarding_step, onboarding_complete, gender,
\* interests, preferred_topics and the session counter unchanged, and it
\* writes nothing when new_user_info holds none of favorite_group, birthday,
\* nickname.
C29_MergeWritesOnlyThreeFields ==
    [][\A resp \in MergeResponses, faults \in SUBSET {<<"profile", 0>>} :
           save_conversation("u1", "c1", MaxTurns, 1, resp, faults) =>
             /\ DOMAIN table_users' = DOMAIN table_users
             /\ \A u \in DOMAIN table_users :
                  \A k \in (DOMAIN table_users[u] \cup DOMAIN table_users'[u]) \ MergeWrites :
                     SameAttribute(table_users[u], table_users'[u], k)
             /\ (Recognised \cap DOMAIN NewInfoOf(resp) = {})
                  => /\ table_users' = table_users
                     /\ \A i \in DOMAIN ret'.calls : ret'.calls[i].api # "users.update_item"]_vars

\* a merge has stored a preference map that holds keys named gender and
\* onboarding_step; the profile's own gender, step and flag are as they were
C29_Witness ==
    /\ ret.op = "save_conversation"
    /\ ret.merge /\ ~ret.raised
    /\ "u1" \in DOMAIN table_users
    /\ "gender" \in DOMAIN Get(table_users["u1"], "kpop_preferences", EmptyDict)
    /\ Get(table_users["u1"], "gender", "") = "female"
    /\ Get(table_users["u1"], "onboarding_step", 0) = 5
    /\ Get(table_users["u1"], "onboarding_complete", FALSE)

\* The structured preference map stored for user_id
KpopOf(tbl, user_id) == Get(tbl[user_id], "kpop_preferences", EmptyDict)

\* C30: the profile merge of save_conversation merges into the structured
\* preference map and does not replace it: the entries of kpop_preferences
\* collected earlier (by onboarding step 3 or by an earlier save) are still
\* present after any later save_conversation, and the map never holds the
\* extracted nickname or birthday.
C30_PreferenceMapIsMerged ==
    [][\A u \in DOMAIN table_users :
         (ret'.op = "save_conversation" /\ u \in DOMAIN table_users') =>
            /\ \A k \in DOMAIN KpopOf(table_users, u) : k \in DOMAIN KpopOf(table_users', u)
            /\ {"nickname", "birthday"} \cap DOMAIN KpopOf(table_users', u) = {}]_vars

====
